---- MODULE Spec2Model ----
(***************************************************************************)
(* A model of pyjavapoet's rendering pipeline: Modifier ordering, the      *)
(* CodeWriter sink, the CodeBlock template engine, the descriptors' emit   *)
(* methods and JavaFile's two-pass import resolution.                      *)
(*                                                                         *)
(* Python strings are sequences of one-character strings, so that split,   *)
(* replace, startswith and the lexicographic order of sorted() are         *)
(* computed and not assumed.                                               *)
(***************************************************************************)
EXTENDS Integers, Sequences, FiniteSets, TLC

VARIABLES
    \* ---- a descriptor builder and its modifier set (SpecMod)
    modKind,            \* which builder: "type", "method", "field", "parameter"
    modifiers,          \* Builder.modifiers / Builder.__modifiers
    modRaised,          \* the last add_modifiers call raised ValueError
    modCalls,           \* number of add_modifiers calls made
    modRendered,        \* the outcome of str(builder.build())
    \* ---- a JavaFile builder over a class with fields (SpecFile)
    jfTypeBuilder,      \* the TypeSpec.Builder of the file's class
    jfSpec,             \* the TypeSpec its build() returned last, or None
    jfBuilder,          \* the JavaFile.Builder made from that TypeSpec, or None
    jfOut,              \* the outcome of str(java_file)
    \* ---- a CodeBlock builder (SpecBlock)
    format_parts,       \* CodeBlock.Builder.format_parts
    args,               \* CodeBlock.Builder.args
    cbCalls,            \* the add calls made: <<[format, args]>>
    cbOut,              \* the outcome of str(builder.build())
    \* ---- CodeBlock.join_to_code (SpecJoin)
    joinBlocks,         \* the blocks handed to join_to_code
    joinSep,            \* the separator
    joinOut,            \* the outcome of str(CodeBlock.join_to_code(...))
    \* ---- a CodeWriter and the calls made on it (SpecWriter)
    writer,             \* the CodeWriter: out, indent, indent_level, line_start
    writerLast,         \* the last call on it: its name, its argument, the writer before
    wrapper,            \* the LineWrapper last made by line_wrapper(), or None
    \* ---- a MethodSpec builder (SpecMethod)
    methodBuilder,      \* MethodSpec.Builder: kind, modifiers, code_builder
    methodCalls,        \* the calls made on it: <<[op, raised]>>
    methodOut,          \* the outcome of str(builder.build())
    \* ---- a TypeSpec builder (SpecType)
    typeBuilder,        \* TypeSpec.Builder: kind, superclass, enum constants, record components
    typeLast,           \* the last call on it: its name, whether it raised, the builder before
    typeOut,            \* the outcome of str(builder.build())
    \* ---- JavaFile builders and the descriptors made from them (SpecCopy)
    heap,               \* the dicts and sets of the builders and descriptors, by address
    jfBuilders,         \* the JavaFile.Builder objects: the addresses of their containers
    jfFiles,            \* the JavaFile objects: the addresses of their containers
    copyLast,           \* the last call: its name, its builder, its argument, the heap before
    \* ---- a descriptor and its to_builder().build() (SpecTrip)
    rtDescriptor,       \* the descriptor: its class, its value, the heap of its containers
    rtBuilder,          \* None or the builder that to_builder() returned
    rtCopy,             \* None or the descriptor that build() or copy() returned
    \* ---- a ClassName made by a factory from a string (SpecName)
    nameInput,          \* the string handed to the factory
    nameMade,           \* None or the factory used and the ClassName it returned
    nameOut,            \* the outcome of str() of a field of that type
    \* ---- type references constructed one after the other (SpecEq)
    refs,               \* the TypeName objects; an object's index is its identity
    emSubject,          \* the MethodSpec or TypeSpec to emit
    emWriter,           \* the CodeWriter it is emitted to
    emStart             \* None, or the writer's indent level when emit was called
                        \* and whether emit raised

vars == <<modKind, modifiers, modRaised, modCalls, modRendered,
          jfTypeBuilder, jfSpec, jfBuilder, jfOut,
          format_parts, args, cbCalls, cbOut,
          joinBlocks, joinSep, joinOut,
          writer, writerLast, wrapper,
          methodBuilder, methodCalls, methodOut,
          typeBuilder, typeLast, typeOut,
          heap, jfBuilders, jfFiles, copyLast,
          rtDescriptor, rtBuilder, rtCopy,
          nameInput, nameMade, nameOut,
          refs,
          emSubject, emWriter, emStart>>

modVars   == <<modKind, modifiers, modRaised, modCalls, modRendered>>
fileVars  == <<jfTypeBuilder, jfSpec, jfBuilder, jfOut>>
blockVars == <<format_parts, args, cbCalls, cbOut>>
joinVars  == <<joinBlocks, joinSep, joinOut>>
writerVars == <<writer, writerLast, wrapper>>
methodVars == <<methodBuilder, methodCalls, methodOut>>
typeVars  == <<typeBuilder, typeLast, typeOut>>
copyVars  == <<heap, jfBuilders, jfFiles, copyLast>>
tripVars  == <<rtDescriptor, rtBuilder, rtCopy>>
nameVars  == <<nameInput, nameMade, nameOut>>
eqVars    == <<refs>>
emitVars  == <<emSubject, emWriter, emStart>>

\* the outcome of a build-and-render: nothing yet, a text, or an exception
\* `of` is what was built and rendered
NotRendered == [status |-> "none", text |-> <<>>, of |-> <<>>]
Rendered(text, of) == [status |-> "ok", text |-> text, of |-> of]
Raised(of) == [status |-> "raised", text |-> <<>>, of |-> of]

\* build() returned the descriptor `of` and its str() raised
StrRaised(of) == [status |-> "str_raised", text |-> <<>>, of |-> of]

-----------------------------------------------------------------------------
(* Python str operations                                                   *)

\* the characters used, in ascending code point order
Chars == <<"\n"," ","!","\"","$","&","(",")","*","+",",","-",".","/","0","1","2","3","4","5","6","7","8","9",":",";","<","=",">","?","@","A","B","C","D","E","F","G","H","I","J","K","L","M","N","O","P","Q","R","S","T","U","V","W","X","Y","Z","[","\\","]","_","a","b","c","d","e","f","g","h","i","j","k","l","m","n","o","p","q","r","s","t","u","v","w","x","y","z","{","|","}">>

\* the rank of a character in code point order
Ord(c) == CHOOSE i \in 1..Len(Chars) : Chars[i] = c

\* s < t for Python strings: lexicographic by code point; k is the first
\* position where t differs from s or s has ended
StrLess(s, t) ==
    \E k \in 1..Len(t) :
        /\ Len(s) >= k - 1
        /\ \A j \in 1..(k - 1) : s[j] = t[j]
        /\ (Len(s) = k - 1 \/ Ord(s[k]) < Ord(t[k]))

\* s.startswith(p)
StartsWith(s, p) == Len(s) >= Len(p) /\ SubSeq(s, 1, Len(p)) = p

\* s.endswith(p)
EndsWith(s, p) == Len(s) >= Len(p) /\ SubSeq(s, Len(s) - Len(p) + 1, Len(s)) = p

\* c in s, for a character c
Contains(s, c) == \E i \in 1..Len(s) : s[i] = c

\* s * n
RECURSIVE Repeat(_, _)
Repeat(s, n) == IF n <= 0 THEN <<>> ELSE s \o Repeat(s, n - 1)

\* s.split(c) for a character c: the list of the segments between its occurrences
RECURSIVE Split(_, _)
Split(s, c) ==
    IF ~Contains(s, c) THEN <<s>>
    ELSE LET i == CHOOSE k \in 1..Len(s) : s[k] = c /\ \A j \in 1..(k - 1) : s[j] # c
         IN <<SubSeq(s, 1, i - 1)>> \o Split(SubSeq(s, i + 1, Len(s)), c)

\* sep.join(parts)
RECURSIVE Join(_, _)
Join(parts, sep) ==
    IF parts = <<>> THEN <<>>
    ELSE IF Len(parts) = 1 THEN parts[1]
    ELSE parts[1] \o sep \o Join(Tail(parts), sep)

\* s.rsplit(".", 1) of a string that holds a dot: <<before the last dot, after it>>
RSplitDot(s) ==
    LET i == CHOOSE k \in 1..Len(s) : s[k] = "." /\ \A j \in (k + 1)..Len(s) : s[j] # "."
    IN <<SubSeq(s, 1, i - 1), SubSeq(s, i + 1, Len(s))>>

\* s.replace(c, r) for a character c and a string r
RECURSIVE Replace(_, _, _)
Replace(s, c, r) ==
    IF s = <<>> THEN <<>>
    ELSE (IF Head(s) = c THEN r ELSE <<Head(s)>>) \o Replace(Tail(s), c, r)

\* the concatenation of a list of strings
RECURSIVE Concat(_)
Concat(ss) == IF ss = <<>> THEN <<>> ELSE Head(ss) \o Concat(Tail(ss))

\* sorted(xs) for a list of strings (insertion sort; sorted() is stable)
RECURSIVE InsertSorted(_, _)
InsertSorted(x, sorted) ==
    IF sorted = <<>> THEN <<x>>
    ELSE IF StrLess(x, Head(sorted)) THEN <<x>> \o sorted
    ELSE <<Head(sorted)>> \o InsertSorted(x, Tail(sorted))

RECURSIVE SortedStrings(_)
SortedStrings(xs) ==
    IF xs = <<>> THEN <<>>
    ELSE InsertSorted(xs[Len(xs)], SortedStrings(SubSeq(xs, 1, Len(xs) - 1)))

-----------------------------------------------------------------------------
(* type_name.py: ClassName                                                 *)

\* ClassName.__init__: a package name and the path of simple names
ClassName(package_name, simple_names) ==
    [package_name |-> package_name, simple_names |-> simple_names]

\* ClassName.get: simple names that hold dots are split into their segments
RECURSIVE SplitAll(_)
SplitAll(names) ==
    IF names = <<>> THEN <<>>
    ELSE (IF Contains(Head(names), ".") THEN Split(Head(names), ".") ELSE <<Head(names)>>)
         \o SplitAll(Tail(names))

ClassName_get(package_name, simple_names) == ClassName(package_name, SplitAll(simple_names))

\* ClassName.simple_name: the last simple name
simple_name(cn) == cn.simple_names[Len(cn.simple_names)]

\* ClassName.qualified_name
qualified_name(cn) ==
    IF cn.package_name = <<>> THEN Join(cn.simple_names, <<".">>)
    ELSE cn.package_name \o <<".">> \o Join(cn.simple_names, <<".">>)

-----------------------------------------------------------------------------
(* code_writer.py: CodeWriter                                              *)

\* CodeWriter.__init__(indent, max_line_length)
CodeWriter_init(indent, max_line_length) ==
    [out |-> <<>>, indent |-> indent, max_line_length |-> max_line_length,
     indent_level |-> 0, line_start |-> TRUE, required_imports |-> {}]

\* CodeWriter(indent): max_line_length has its default, 100
CodeWriter(indent) == CodeWriter_init(indent, 100)

\* the default indent string of CodeWriter.__init__: two spaces
DefaultIndent == <<" ", " ">>

\* CodeWriter.indent_more
indent_more(w) == [w EXCEPT !.indent_level = @ + 1]

\* the decrement without the test of the level
IndentLessUnguarded(w) == [w EXCEPT !.indent_level = @ - 1]

\* CodeWriter.indent_less
indent_less(w) == IF w.indent_level > 0 THEN [w EXCEPT !.indent_level = @ - 1] ELSE w

\* the lines joined by newlines, with no indentation after a newline
EmitLinesUnprefixed(lines, i, prefix) ==
    IF i > Len(lines) THEN <<>>
    ELSE (IF i > 1 THEN <<"\n">> ELSE <<>>) \o Join(SubSeq(lines, i, Len(lines)), <<"\n">>)

\* the loop of CodeWriter.emit over s.split("\n"): a newline and, before a
\* non-empty line, the indentation precede every line but the first
RECURSIVE EmitLines(_, _, _)
EmitLines(lines, i, prefix) ==
    IF i > Len(lines) THEN <<>>
    ELSE (IF i > 1
          THEN <<"\n">> \o (IF lines[i] # <<>> THEN prefix ELSE <<>>)
          ELSE <<>>)
         \o lines[i] \o EmitLines(lines, i + 1, prefix)

\* CodeWriter.emit
emit(w, text) ==
    LET lead == StartsWith(text, <<"\n">>)
        w0 == IF lead THEN [w EXCEPT !.out = @ \o <<"\n">>, !.line_start = TRUE] ELSE w
        s  == IF lead THEN Tail(text) ELSE text
        prefix == Repeat(w.indent, w.indent_level)
        w1 == IF w0.line_start
              THEN [w0 EXCEPT !.out = @ \o prefix, !.line_start = FALSE]
              ELSE w0
        w2 == [w1 EXCEPT !.out = @ \o EmitLines(Split(s, "\n"), 1, prefix)]
    IN IF s = <<>> THEN w0
       ELSE IF EndsWith(s, <<"\n">>) THEN [w2 EXCEPT !.line_start = TRUE]
       ELSE w2

\* CodeWriter.begin_control_flow
begin_control_flow(w, control_flow_string) ==
    indent_more(emit(emit(w, control_flow_string), <<" ","{","\n">>))

\* CodeWriter.next_control_flow
next_control_flow(w, control_flow_string) ==
    indent_more(emit(emit(emit(indent_less(w), <<"}"," ">>), control_flow_string), <<" ","{","\n">>))

\* CodeWriter.end_control_flow
end_control_flow(w) == emit(indent_less(w), <<"}","\n">>)

\* CodeWriter.emit_type on a ClassName: the type is recorded for import when
\* it has a package, and its simple name is written
emit_type(w, cn) ==
    LET w1 == IF cn.package_name # <<>>
              THEN [w EXCEPT !.required_imports = @ \cup {cn}]
              ELSE w
    IN emit(w1, simple_name(cn))

\* CodeWriter.get_imports: package name -> set of simple names
get_imports(w) ==
    LET named == {cn \in w.required_imports : cn.package_name # <<>>}
        packages == {cn.package_name : cn \in named}
    IN [p \in packages |-> {simple_name(cn) : cn \in {c \in named : c.package_name = p}}]

\* CodeWriter.line_wrapper: LineWrapper.__init__ with the writer's indent
\* level and max_line_length at the time of the call
line_wrapper(w) ==
    [indent_level |-> w.indent_level, max_line_length |-> w.max_line_length,
     current_line_length |-> 0, need_wrap |-> FALSE]

\* LineWrapper.append: the wrapper and its writer after the call. The
\* continuation line is indented by two spaces for each level of the wrapper
LineWrapper_append(lw, w, s) ==
    IF StartsWith(s, <<"\n">>)
    THEN [wrapper |-> [lw EXCEPT !.current_line_length = 0], writer |-> emit(w, s)]
    ELSE LET wrap == lw.current_line_length + Len(s) > lw.max_line_length
             w1 == IF wrap THEN emit(w, <<"\n">> \o Repeat(<<" ", " ">>, lw.indent_level)) ELSE w
             length == IF wrap THEN 2 * lw.indent_level ELSE lw.current_line_length
         IN [wrapper |-> [lw EXCEPT !.current_line_length = length + Len(s)],
             writer |-> emit(w1, s)]

\* CodeWriter.__str__
WriterText(w) == w.out

\* the calls that an emit method makes on its code_writer
EmitCall(text) == [op |-> "emit", arg |-> text]
EmitTypeCall(type_name) == [op |-> "emit_type", arg |-> type_name]
IndentMoreCall == [op |-> "indent_more", arg |-> <<>>]
IndentLessCall == [op |-> "indent_less", arg |-> <<>>]

\* code_writer.indent() and code_writer.unindent(): CodeWriter has no such
\* methods. indent is the str attribute that __init__ assigns, so that
\* calling it raises a TypeError, and unindent is no attribute at all.
IndentCall == [op |-> "indent", arg |-> <<>>]
UnindentCall == [op |-> "unindent", arg |-> <<>>]

\* CodeWriter(**keywords): __init__ takes indent and max_line_length, and a
\* call with any other keyword raises a TypeError
NewCodeWriterCall(keywords) == [op |-> "CodeWriter", arg |-> keywords]
CodeWriter_init_raises(keywords) == keywords \ {"indent", "max_line_length"} # {}

\* the call raises an exception
CallRaises(c) ==
    \/ c.op \in {"indent", "unindent"}
    \/ c.op = "CodeWriter" /\ CodeWriter_init_raises(c.arg)

\* the index of the first call that raises, or 0 when none does
FirstRaise(calls) ==
    IF \E i \in 1..Len(calls) : CallRaises(calls[i])
    THEN CHOOSE i \in 1..Len(calls) :
             CallRaises(calls[i]) /\ \A j \in 1..(i - 1) : ~CallRaises(calls[j])
    ELSE 0

\* an emit method that makes these calls raises
Raises(calls) == FirstRaise(calls) # 0

\* what str() gives in place of a text when the emit method raised
TypeError == <<"TypeError">>

\* the outcome of build() and str(): value is the text of the descriptor
\* `of`, or the exception of its str()
Outcome(value, of) == IF value = TypeError THEN StrRaised(of) ELSE Rendered(value, of)

\* the writer after one call on it; the construction of another CodeWriter
\* leaves it as it is
Call(w, c) ==
    CASE c.op = "emit" -> emit(w, c.arg)
      [] c.op = "emit_type" -> emit_type(w, c.arg)
      [] c.op = "indent_more" -> indent_more(w)
      [] c.op = "indent_less" -> indent_less(w)
      [] OTHER -> w

\* the writer after the calls, none of which raises, made in their order; the
\* list is halved, and m is the writer after the first half
RECURSIVE RunCalls(_, _)
RunCalls(w, calls) ==
    IF calls = <<>> THEN w
    ELSE IF Len(calls) = 1 THEN Call(w, calls[1])
    ELSE CHOOSE after \in {RunCalls(m, SubSeq(calls, Len(calls) \div 2 + 1, Len(calls))) :
                               m \in {RunCalls(w, SubSeq(calls, 1, Len(calls) \div 2))}} : TRUE

\* the writer after the calls of an emit method: the calls are made in their
\* order up to the first one that raises
Run(w, calls) ==
    RunCalls(w, IF Raises(calls) THEN SubSeq(calls, 1, FirstRaise(calls) - 1) ELSE calls)

\* Code.__str__: the text of a fresh writer after emit, or the exception of
\* emit
Str(w, calls) == IF Raises(calls) THEN TypeError ELSE WriterText(Run(w, calls))

-----------------------------------------------------------------------------
(* type_name.py: TypeName.get on a string                                  *)

PRIMITIVE_TYPES ==
    {<<"b","o","o","l","e","a","n">>, <<"b","y","t","e">>, <<"s","h","o","r","t">>,
     <<"i","n","t">>, <<"l","o","n","g">>, <<"c","h","a","r">>, <<"f","l","o","a","t">>,
     <<"d","o","u","b","l","e">>, <<"v","o","i","d">>}

TypeName_get(name) ==
    IF name \in PRIMITIVE_TYPES THEN ClassName_get(<<>>, <<name>>)
    ELSE IF Contains(name, ".")
         THEN ClassName_get(RSplitDot(name)[1], <<RSplitDot(name)[2]>>)
    ELSE ClassName_get(<<>>, <<name>>)

\* str.isupper() of one character: the uppercase letters of ASCII and, of the
\* characters outside ASCII, the uppercase letter the inputs below use
AsciiUpper == {"A", "B", "C", "D", "E", "F", "G", "H", "I", "J", "K", "L", "M",
               "N", "O", "P", "Q", "R", "S", "T", "U", "V", "W", "X", "Y", "Z"}
NonAsciiUpper == {"Ñ"}
isupper(ch) == ch \in AsciiUpper \cup NonAsciiUpper

\* util.is_ascii_upper of one character
is_ascii_upper(ch) == ch \in AsciiUpper

\* the loop of ClassName.get_from_fqcn over the parts from the i-th on: a part
\* goes to the class parts once one is there or when its first character
\* isupper(), and to the package parts otherwise
RECURSIVE FqcnLoop(_, _, _, _)
FqcnLoop(parts, i, package_parts, class_parts) ==
    IF i > Len(parts) THEN [package_parts |-> package_parts, class_parts |-> class_parts]
    ELSE IF class_parts # <<>> \/ (parts[i] # <<>> /\ isupper(parts[i][1]))
         THEN FqcnLoop(parts, i + 1, package_parts, Append(class_parts, parts[i]))
         ELSE FqcnLoop(parts, i + 1, Append(package_parts, parts[i]), class_parts)

\* ClassName.get_from_fqcn
ClassName_get_from_fqcn(fully_qualified_class_name) ==
    IF ~Contains(fully_qualified_class_name, ".")
    THEN ClassName(<<>>, <<fully_qualified_class_name>>)
    ELSE LET r == FqcnLoop(Split(fully_qualified_class_name, "."), 1, <<>>, <<>>)
         IN  ClassName(Join(r.package_parts, <<".">>), r.class_parts)

\* ArrayTypeName.__init__ and TypeVariableName.__init__ with no bound; a
\* ClassName among them is tagged with its variant
ClassNameRef(cn) == [variant |-> "class", value |-> cn]
ArrayTypeName(component_type) == [variant |-> "array", value |-> component_type]
TypeVariableName(name) == [variant |-> "variable", value |-> name]

\* TypeName.__str__: ClassName.emit, ArrayTypeName.emit over a ClassName
\* component and TypeVariableName.emit, into a new CodeWriter
TypeName_str(t) ==
    CASE t.variant = "class" -> emit_type(CodeWriter(DefaultIndent), t.value).out
      [] t.variant = "array" ->
             emit(emit_type(CodeWriter(DefaultIndent), t.value), <<"[", "]">>).out
      [] OTHER -> emit(CodeWriter(DefaultIndent), t.value).out

\* a == b for the i-th and the j-th object: ClassName.__eq__ compares the
\* package and the simple names of two ClassNames; the other variants define
\* no __eq__, so that object's comparison by identity applies
TypeName_eq(objects, i, j) ==
    IF objects[i].variant = "class" \/ objects[j].variant = "class"
    THEN /\ objects[i].variant = "class" /\ objects[j].variant = "class"
         /\ objects[i].value.package_name = objects[j].value.package_name
         /\ objects[i].value.simple_names = objects[j].value.simple_names
    ELSE i = j

\* hash(a) for the i-th object: ClassName.__hash__ hashes the package and the
\* simple names; the other variants have object's hash, one per identity
TypeName_hash(objects, i) ==
    IF objects[i].variant = "class"
    THEN <<objects[i].value.package_name, objects[i].value.simple_names>>
    ELSE <<"id", i>>

\* ClassName.simple_name raises IndexError: simple_names[-1] of an empty list
simple_name_raises(cn) == cn.simple_names = <<>>

-----------------------------------------------------------------------------
(* code_block.py: CodeBlock                                                *)

\* the values bound to placeholders: a str, a ClassName or a CodeBlock
StrArg(text) == [kind |-> "str", value |-> text]
TypeArg(cn) == [kind |-> "type", value |-> cn]
BlockArg(cb) == [kind |-> "block", value |-> cb]

\* CodeBlock.__init__
CodeBlock(parts, arguments) == [format_parts |-> parts, args |-> arguments]

\* the pattern \$([LSTN]) matches at position i of s
MatchAt(s, i) == i + 1 <= Len(s) /\ s[i] = "$" /\ s[i + 1] \in {"L", "S", "T", "N"}

\* re.search(pattern, s): the position of the first match, 0 when there is none
Search(s) ==
    IF \E i \in 1..Len(s) : MatchAt(s, i)
    THEN CHOOSE i \in 1..Len(s) : MatchAt(s, i) /\ \A j \in 1..(i - 1) : ~MatchAt(s, j)
    ELSE 0

\* the two replacements in the other order
EscapeQuotesFirst(text) == Replace(Replace(text, "\"", <<"\\", "\"">>), "\\", <<"\\", "\\">>)

\* str(arg).replace("\\", "\\\\").replace('"', '\\"')
Escape(text) == Replace(Replace(text, "\\", <<"\\", "\\">>), "\"", <<"\\", "\"">>)

RECURSIVE CodeBlock_emit(_)
RECURSIVE CodeBlock_str(_)

\* str(arg)
StrOf(arg) ==
    IF arg.kind = "str" THEN arg.value
    ELSE IF arg.kind = "type"
    THEN WriterText(Run(CodeWriter(DefaultIndent), <<EmitTypeCall(arg.value)>>))
    ELSE CodeBlock_str(arg.value)

\* the calls of CodeBlock.emit for one placeholder, bound to arg
EmitPlaceholder(letter, arg) ==
    IF letter = "L"
    THEN IF arg.kind = "block" THEN CodeBlock_emit(arg.value) ELSE <<EmitCall(StrOf(arg))>>
    ELSE IF letter = "S"
    THEN <<EmitCall(<<"\"">> \o Escape(StrOf(arg)) \o <<"\"">>)>>
    ELSE IF letter = "T"
    THEN IF arg.kind = "type" THEN <<EmitTypeCall(arg.value)>>
         ELSE IF arg.kind = "str" THEN <<EmitTypeCall(TypeName_get(arg.value))>>
         ELSE CodeBlock_emit(arg.value)
    ELSE <<EmitCall(StrOf(arg))>>

\* the loop of CodeBlock.emit from part i on; arg_index counts the arguments used
RECURSIVE EmitParts(_, _, _)
EmitParts(cb, i, arg_index) ==
    IF i > Len(cb.format_parts) THEN <<>>
    ELSE LET part == cb.format_parts[i]
             m == Search(part)
             bound == arg_index < Len(cb.args)
         IN IF m = 0 THEN <<EmitCall(part)>> \o EmitParts(cb, i + 1, arg_index)
            ELSE (IF m > 1 THEN <<EmitCall(SubSeq(part, 1, m - 1))>> ELSE <<>>)
                 \o (IF bound THEN EmitPlaceholder(part[m + 1], cb.args[arg_index + 1]) ELSE <<>>)
                 \o (IF m + 1 < Len(part) THEN <<EmitCall(SubSeq(part, m + 2, Len(part)))>> ELSE <<>>)
                 \o EmitParts(cb, i + 1, IF bound THEN arg_index + 1 ELSE arg_index)

\* CodeBlock.emit: the calls it makes on the writer
CodeBlock_emit(cb) == EmitParts(cb, 1, 0)

\* CodeBlock.__str__
CodeBlock_str(cb) == WriterText(Run(CodeWriter(DefaultIndent), CodeBlock_emit(cb)))

\* the loop of Builder.add over re.finditer: the text before each match, then
\* the match, and the text after the last match
RECURSIVE SplitParts(_, _)
SplitParts(s, last_end) ==
    LET rest == SubSeq(s, last_end + 1, Len(s))
        m == Search(rest)
    IN IF m = 0 THEN (IF last_end < Len(s) THEN <<rest>> ELSE <<>>)
       ELSE (IF m > 1 THEN <<SubSeq(rest, 1, m - 1)>> ELSE <<>>)
            \o <<SubSeq(rest, m, m + 1)>>
            \o SplitParts(s, last_end + m + 1)

\* CodeBlock.Builder.add on the builder b = [format_parts, args]
Builder_add(b, format_string, arguments) ==
    IF Search(format_string) = 0
    THEN [b EXCEPT !.format_parts = Append(@, format_string)]
    ELSE [format_parts |-> b.format_parts \o SplitParts(format_string, 0),
          args |-> b.args \o arguments]

\* CodeBlock.Builder.add_statement
Builder_add_statement(b, format_string, arguments) ==
    Builder_add(Builder_add(b, format_string, arguments), <<";", "\n">>, <<>>)

\* CodeBlock.Builder.begin_control_flow
Builder_begin_control_flow(b, control_flow_string, arguments) ==
    Builder_add(Builder_add(b, control_flow_string, arguments), <<" ","{","\n">>, <<>>)

\* CodeBlock.Builder.next_control_flow
Builder_next_control_flow(b, control_flow_string, arguments) ==
    Builder_add(Builder_add(Builder_add(b, <<"}"," ">>, <<>>), control_flow_string, arguments),
                <<" ","{","\n">>, <<>>)

\* CodeBlock.Builder.end_control_flow
Builder_end_control_flow(b) == Builder_add(b, <<"}","\n">>, <<>>)

\* CodeBlock.builder()
NewBuilder == [format_parts |-> <<>>, args |-> <<>>]

\* CodeBlock.Builder.build
Builder_build(b) == CodeBlock(b.format_parts, b.args)

\* CodeBlock.of
CodeBlock_of(format_string, arguments) ==
    Builder_build(Builder_add(NewBuilder, format_string, arguments))

\* CodeWriter.emit_statement: the block of the format string and its
\* arguments is emitted, then ";\n"
emit_statement(w, format_string, arguments) ==
    emit(Run(w, CodeBlock_emit(CodeBlock_of(format_string, arguments))), <<";", "\n">>)

\* the loop of CodeBlock.join_to_code from block i on
RECURSIVE JoinLoop(_, _, _, _)
JoinLoop(b, code_blocks, separator, i) ==
    IF i > Len(code_blocks) THEN b
    ELSE LET b1 == IF i > 1 THEN Builder_add(b, separator, <<>>) ELSE b
         IN JoinLoop(Builder_add(b1, <<"$", "L">>, <<BlockArg(code_blocks[i])>>),
                     code_blocks, separator, i + 1)

\* CodeBlock.join_to_code
join_to_code(code_blocks, separator) ==
    IF code_blocks = <<>> THEN CodeBlock(<<>>, <<>>)
    ELSE Builder_build(JoinLoop(NewBuilder, code_blocks, separator, 1))

-----------------------------------------------------------------------------
(* modifier.py: Modifier                                                   *)

PUBLIC == <<"p","u","b","l","i","c">>
PROTECTED == <<"p","r","o","t","e","c","t","e","d">>
PRIVATE == <<"p","r","i","v","a","t","e">>
ABSTRACT == <<"a","b","s","t","r","a","c","t">>
DEFAULT == <<"d","e","f","a","u","l","t">>
STATIC == <<"s","t","a","t","i","c">>
FINAL == <<"f","i","n","a","l">>
SYNCHRONIZED == <<"s","y","n","c","h","r","o","n","i","z","e","d">>
NATIVE == <<"n","a","t","i","v","e">>
STRICTFP == <<"s","t","r","i","c","t","f","p">>
TRANSIENT == <<"t","r","a","n","s","i","e","n","t">>
VOLATILE == <<"v","o","l","a","t","i","l","e">>
SEALED == <<"s","e","a","l","e","d">>
NON_SEALED == <<"n","o","n","-","s","e","a","l","e","d">>

\* the members of the enum, each identified by its value
Modifier ==
    {PUBLIC, PROTECTED, PRIVATE, ABSTRACT, DEFAULT, STATIC, FINAL, SYNCHRONIZED,
     NATIVE, STRICTFP, TRANSIENT, VOLATILE, SEALED, NON_SEALED}

\* the list `order` of Modifier.ordered_modifiers
order ==
    <<PUBLIC, PROTECTED, PRIVATE, ABSTRACT, STATIC, FINAL, TRANSIENT, VOLATILE,
      SYNCHRONIZED, NATIVE, STRICTFP, SEALED, NON_SEALED, DEFAULT>>

\* order_map.get(x, 100)
OrderKey(m) ==
    IF \E i \in 1..Len(order) : order[i] = m
    THEN (CHOOSE i \in 1..Len(order) : order[i] = m) - 1
    ELSE 100

\* one order in which the set is iterated; the sorts below have distinct keys,
\* so that their result does not depend on it
RECURSIVE SetToSeq(_)
SetToSeq(S) ==
    IF S = {} THEN <<>> ELSE LET x == CHOOSE y \in S : TRUE IN <<x>> \o SetToSeq(S \ {x})

RECURSIVE InsertByKey(_, _)
InsertByKey(x, sorted) ==
    IF sorted = <<>> THEN <<x>>
    ELSE IF OrderKey(x) < OrderKey(Head(sorted)) THEN <<x>> \o sorted
    ELSE <<Head(sorted)>> \o InsertByKey(x, Tail(sorted))

RECURSIVE SortedByKey(_)
SortedByKey(xs) ==
    IF xs = <<>> THEN <<>>
    ELSE InsertByKey(xs[Len(xs)], SortedByKey(SubSeq(xs, 1, Len(xs) - 1)))

\* Modifier.ordered_modifiers: sorted(modifiers, key=order_map.get)
ordered_modifiers(ms) == SortedByKey(SetToSeq(ms))

\* sorted(self.modifiers, key=lambda m: m.value), the sort of TypeSpec.emit,

\* MethodSpec.emit and ParameterSpec.emit
SortedByValue(ms) == SortedStrings(SetToSeq(ms))

\* the check without the abstract+static case
CheckMethodModifiersWithoutStatic(ms) ==
    \/ ABSTRACT \in ms /\ FINAL \in ms
    \/ ABSTRACT \in ms /\ PRIVATE \in ms

\* Modifier.check_method_modifiers: TRUE when it raises
check_method_modifiers(ms) ==
    \/ ABSTRACT \in ms /\ FINAL \in ms
    \/ ABSTRACT \in ms /\ PRIVATE \in ms
    \/ ABSTRACT \in ms /\ STATIC \in ms

\* Modifier.check_field_modifiers: TRUE when it raises
check_field_modifiers(ms) == FINAL \in ms /\ VOLATILE \in ms

\* Modifier.check_class_modifiers: TRUE when it raises
check_class_modifiers(ms) ==
    \/ ABSTRACT \in ms /\ FINAL \in ms
    \/ SEALED \in ms /\ FINAL \in ms

\* the loop "for modifier in ...: emit(modifier.value); emit(' ')"
RECURSIVE EmitModifiers(_)
EmitModifiers(ms) ==
    IF ms = <<>> THEN <<>>
    ELSE <<EmitCall(Head(ms)), EmitCall(<<" ">>)>> \o EmitModifiers(Tail(ms))

-----------------------------------------------------------------------------
(* The descriptors. The builders of this model set no javadoc, annotation, *)
(* type variable, exception, superinterface, permitted subclass or nested  *)
(* type, so the branches of emit for them are not taken and are not        *)
(* written out.                                                            *)

\* an Optional value: <<>> is None, <<v>> is v
None == <<>>
Some(v) == <<v>>

\* FieldSpec.__init__
FieldSpec(type_name, name, ms) == [type_name |-> type_name, name |-> name, modifiers |-> ms]

\* FieldSpec.emit: the calls it makes on the writer
FieldSpec_emit(f) ==
    EmitModifiers(ordered_modifiers(f.modifiers))
    \o <<EmitTypeCall(f.type_name), EmitCall(<<" ">>), EmitCall(f.name), EmitCall(<<";","\n">>)>>

\* ParameterSpec.__init__
ParameterSpec(type_name, name, ms) ==
    [type_name |-> type_name, name |-> name, modifiers |-> ms]

\* ParameterSpec.emit of a parameter that is not varargs
ParameterSpec_emit(p) ==
    EmitModifiers(SortedByValue(p.modifiers))
    \o <<EmitTypeCall(p.type_name), EmitCall(<<" ">>), EmitCall(p.name)>>

\* MethodSpec.__init__ of kind METHOD
MethodSpec(name, ms, parameters, return_type, code, default_value) ==
    [name |-> name, modifiers |-> ms, parameters |-> parameters,
     return_type |-> return_type, code |-> code, default_value |-> default_value,
     kind |-> "METHOD"]

\* the parameter loop of MethodSpec.emit
RECURSIVE EmitParameters(_, _)
EmitParameters(ps, i) ==
    IF i > Len(ps) THEN <<>>
    ELSE (IF i > 1 THEN <<EmitCall(<<","," ">>)>> ELSE <<>>)
         \o ParameterSpec_emit(ps[i]) \o EmitParameters(ps, i + 1)

\* MethodSpec.emit with the default clause tested before the abstract and
\* native modifiers
EmitDefaultBeforeAbstract(m) ==
    EmitModifiers(SortedByValue(m.modifiers))
    \o (IF m.kind # "METHOD" THEN <<>>
        ELSE (IF m.return_type = None THEN <<EmitCall(<<"v","o","i","d">>)>>
              ELSE <<EmitTypeCall(m.return_type[1])>>)
             \o <<EmitCall(<<" ">>)>>)
    \o <<EmitCall(m.name), EmitCall(<<"(">>)>>
    \o EmitParameters(m.parameters, 1)
    \o <<EmitCall(<<")">>)>>
    \o (IF m.default_value # None
        THEN <<EmitCall(<<" ","d","e","f","a","u","l","t"," ">>)>> \o CodeBlock_emit(m.default_value[1])
             \o <<EmitCall(<<";","\n">>)>>
        ELSE IF ABSTRACT \in m.modifiers \/ NATIVE \in m.modifiers
        THEN <<EmitCall(<<";","\n">>)>>
        ELSE <<EmitCall(<<" ","{","\n">>), IndentMoreCall>>
             \o (IF m.code # None THEN CodeBlock_emit(m.code[1]) ELSE <<>>)
             \o <<IndentLessCall, EmitCall(<<"}","\n">>)>>)
\* MethodSpec.emit
MethodSpec_emit(m) ==
    EmitModifiers(SortedByValue(m.modifiers))
    \o (IF m.kind # "METHOD" THEN <<>>
        ELSE (IF m.return_type = None THEN <<EmitCall(<<"v","o","i","d">>)>>
              ELSE <<EmitTypeCall(m.return_type[1])>>)
             \o <<EmitCall(<<" ">>)>>)
    \o <<EmitCall(m.name), EmitCall(<<"(">>)>>
    \o EmitParameters(m.parameters, 1)
    \o <<EmitCall(<<")">>)>>
    \o (IF ABSTRACT \in m.modifiers \/ (NATIVE \in m.modifiers /\ m.default_value = None)
        THEN <<EmitCall(<<";","\n">>)>>
        ELSE IF m.default_value # None
        THEN <<EmitCall(<<" ","d","e","f","a","u","l","t"," ">>)>> \o CodeBlock_emit(m.default_value[1])
             \o <<EmitCall(<<";","\n">>)>>
        ELSE <<EmitCall(<<" ","{","\n">>), IndentMoreCall>>
             \o (IF m.code # None THEN CodeBlock_emit(m.code[1]) ELSE <<>>)
             \o <<IndentLessCall, EmitCall(<<"}","\n">>)>>)

\* MethodSpec.Builder.__init__: the builder of a compact constructor has no
\* code builder
MethodSpec_Builder(name, kind) ==
    [name |-> name, kind |-> kind, modifiers |-> {},
     code_builder |-> IF kind # "COMPACT_CONSTRUCTOR" THEN Some(NewBuilder) ELSE None,
     default_value |-> None]

\* MethodSpec.Builder.default_value: __init__ assigns None to the attribute
\* default_value of the builder, which hides the method of that name, so the
\* call raises a TypeError and the builder is as before
MethodSpec_default_value(b, format_string, arguments) ==
    [builder |-> b, raised |-> TRUE]

\* MethodSpec.Builder.add_modifiers: the builder after the call, and whether
\* the call raised
MethodSpec_add_modifiers(b, ms) ==
    [builder |-> [b EXCEPT !.modifiers = @ \cup ms],
     raised |-> check_method_modifiers(b.modifiers \cup ms)]

\* the body calls of MethodSpec.Builder raise on a compact constructor and
\* pass the call on to the code builder otherwise
MethodSpec_add_code(b, format_string, arguments) ==
    IF b.kind = "COMPACT_CONSTRUCTOR" THEN [builder |-> b, raised |-> TRUE]
    ELSE [builder |-> [b EXCEPT !.code_builder = Some(Builder_add(@[1], format_string, arguments))],
          raised |-> FALSE]

MethodSpec_add_statement(b, format_string, arguments) ==
    IF b.kind = "COMPACT_CONSTRUCTOR" THEN [builder |-> b, raised |-> TRUE]
    ELSE [builder |-> [b EXCEPT !.code_builder =
                                    Some(Builder_add_statement(@[1], format_string, arguments))],
          raised |-> FALSE]

MethodSpec_begin_control_flow(b, control_flow_string, arguments) ==
    IF b.kind = "COMPACT_CONSTRUCTOR" THEN [builder |-> b, raised |-> TRUE]
    ELSE [builder |-> [b EXCEPT !.code_builder =
                          Some(Builder_begin_control_flow(@[1], control_flow_string, arguments))],
          raised |-> FALSE]

MethodSpec_next_control_flow(b, control_flow_string, arguments) ==
    IF b.kind = "COMPACT_CONSTRUCTOR" THEN [builder |-> b, raised |-> TRUE]
    ELSE [builder |-> [b EXCEPT !.code_builder =
                          Some(Builder_next_control_flow(@[1], control_flow_string, arguments))],
          raised |-> FALSE]

MethodSpec_end_control_flow(b) ==
    IF b.kind = "COMPACT_CONSTRUCTOR" THEN [builder |-> b, raised |-> TRUE]
    ELSE [builder |-> [b EXCEPT !.code_builder = Some(Builder_end_control_flow(@[1]))],
          raised |-> FALSE]

\* the message of the ValueError that MethodSpec.Builder.build raises
AbstractBodyMessage == <<"A","b","s","t","r","a","c","t"," ","m","e","t","h","o","d","s"," ","c","a","n","n","o","t"," ","h","a","v","e"," ","a"," ","b","o","d","y">>

\* the validation of MethodSpec.Builder.build: TRUE when it raises
MethodSpec_build_raises(b) ==
    /\ b.kind = "METHOD"
    /\ ABSTRACT \in b.modifiers /\ b.code_builder # None /\ b.code_builder[1].format_parts # <<>>

\* the MethodSpec that MethodSpec.Builder.build returns
MethodSpec_build(b) ==
    [MethodSpec(b.name, b.modifiers, <<>>, None,
                IF b.code_builder # None THEN Some(Builder_build(b.code_builder[1])) ELSE None,
                b.default_value)
     EXCEPT !.kind = b.kind]

\* TypeSpec.__init__ of kind CLASS with no superclass, enum constant or
\* record component
TypeSpec(name, ms, fields, methods) ==
    [name |-> name, kind |-> "CLASS", modifiers |-> ms, fields |-> fields, methods |-> methods,
     superclass |-> None, types |-> <<>>, enum_constants |-> <<>>,
     record_components |-> <<>>]

RECURSIVE EmitFields(_)
EmitFields(fields) ==
    IF fields = <<>> THEN <<>> ELSE FieldSpec_emit(Head(fields)) \o EmitFields(Tail(fields))

RECURSIVE EmitMethods(_)
EmitMethods(methods) ==
    IF methods = <<>> THEN <<>>
    ELSE MethodSpec_emit(Head(methods)) \o <<EmitCall(<<"\n">>)>> \o EmitMethods(Tail(methods))

\* the keyword that TypeSpec.emit writes for the kind
KindKeyword(kind) ==
    CASE kind = "CLASS" -> <<"c","l","a","s","s">>
      [] kind = "INTERFACE" -> <<"i","n","t","e","r","f","a","c","e">>
      [] kind = "ENUM" -> <<"e","n","u","m">>
      [] kind = "ANNOTATION" -> <<"@","i","n","t","e","r","f","a","c","e">>
      [] OTHER -> <<"r","e","c","o","r","d">>

\* the record component loop of TypeSpec.emit
RECURSIVE EmitRecordComponents(_, _)
EmitRecordComponents(components, i) ==
    IF i > Len(components) THEN <<>>
    ELSE (IF i > 1 THEN <<EmitCall(<<","," ">>)>> ELSE <<>>)
         \o <<EmitTypeCall(components[i][1]), EmitCall(<<" ">>), EmitCall(components[i][2])>>
         \o EmitRecordComponents(components, i + 1)

\* the fields of an enum constant's class body, each followed by a newline
RECURSIVE EmitConstantFields(_)
EmitConstantFields(fields) ==
    IF fields = <<>> THEN <<>>
    ELSE FieldSpec_emit(Head(fields)) \o <<EmitCall(<<"\n">>)>> \o EmitConstantFields(Tail(fields))

\* the enum constant loop of TypeSpec.emit over the items of the dict, in
\* their insertion order; the constants of this model have no annotation and
\* no constructor argument
RECURSIVE EmitEnumConstants(_, _)
EmitEnumConstants(constants, i) ==
    IF i > Len(constants) THEN <<>>
    ELSE (IF i > 1 THEN <<EmitCall(<<",","\n">>)>> ELSE <<>>)
         \o <<EmitCall(<<"\n">>), EmitCall(constants[i].name)>>
         \o (IF constants[i].constant.fields # <<>> \/ constants[i].constant.methods # <<>>
             THEN <<EmitCall(<<" ","{","\n">>), IndentCall>>
                  \o EmitConstantFields(constants[i].constant.fields)
                  \o EmitMethods(constants[i].constant.methods)
                  \o <<UnindentCall, EmitCall(<<"}">>)>>
             ELSE <<>>)
         \o EmitEnumConstants(constants, i + 1)

\* TypeSpec.emit: the calls it makes on its code_writer. The call of
\* code_writer.indent() after the opening brace raises, so that emit writes
\* the declaration up to ' {\n' and no more.
RECURSIVE TypeSpec_emit(_)
RECURSIVE EmitNestedTypes(_)
TypeSpec_emit(t) ==
    EmitModifiers(SortedByValue(t.modifiers))
    \o <<EmitCall(KindKeyword(t.kind)), EmitCall(<<" ">>), EmitCall(t.name)>>
    \o (IF t.kind = "RECORD"
        THEN <<EmitCall(<<"(">>)>> \o EmitRecordComponents(t.record_components, 1) \o <<EmitCall(<<")">>)>>
        ELSE <<>>)
    \o (IF t.superclass # None /\ t.kind # "ENUM"
        THEN <<EmitCall(<<" ","e","x","t","e","n","d","s"," ">>), EmitTypeCall(t.superclass[1])>>
        ELSE <<>>)
    \o <<EmitCall(<<" ","{","\n">>), IndentCall>>
    \o (IF t.kind = "ENUM" /\ t.enum_constants # <<>>
        THEN EmitEnumConstants(t.enum_constants, 1)
             \o (IF t.fields # <<>> \/ t.methods # <<>> \/ t.types # <<>>
                 THEN <<EmitCall(<<";","\n","\n">>)>> ELSE <<EmitCall(<<"\n">>)>>)
        ELSE <<>>)
    \o EmitFields(t.fields)
    \o (IF t.fields # <<>> /\ (t.methods # <<>> \/ t.types # <<>>)
        THEN <<EmitCall(<<"\n">>)>> ELSE <<>>)
    \o EmitMethods(t.methods)
    \o (IF t.methods # <<>> /\ t.types # <<>> THEN <<EmitCall(<<"\n">>)>> ELSE <<>>)
    \o EmitNestedTypes(t.types)
    \o <<UnindentCall, EmitCall(<<"}">>)>>

\* the loop of TypeSpec.emit over the nested types, each followed by a newline
EmitNestedTypes(types) ==
    IF types = <<>> THEN <<>>
    ELSE TypeSpec_emit(Head(types)) \o <<EmitCall(<<"\n">>)>> \o EmitNestedTypes(Tail(types))

\* TypeSpec.Builder.__init__, reached through class_builder, interface_builder,
\* enum_builder, annotation_builder and record_builder
TypeSpec_Builder(name, kind) ==
    [name |-> name, kind |-> kind, modifiers |-> {}, fields |-> <<>>, methods |-> <<>>,
     types |-> <<>>,
     superclass_field |-> None, enum_constants |-> <<>>, record_components |-> <<>>]

\* dict[key] = value on a dict kept as the sequence of its items in insertion
\* order: a key already there keeps its place
RECURSIVE DictSet(_, _, _)
DictSet(items, name, constant) ==
    IF items = <<>> THEN <<[name |-> name, constant |-> constant]>>
    ELSE IF Head(items).name = name
         THEN <<[name |-> name, constant |-> constant]>> \o Tail(items)
         ELSE <<Head(items)>> \o DictSet(Tail(items), name, constant)

\* TypeSpec.Builder.superclass with a TypeName argument
TypeSpec_superclass(b, superclass) ==
    IF b.kind = "INTERFACE" \/ b.kind = "ANNOTATION"
    THEN [builder |-> b, raised |-> TRUE]
    ELSE [builder |-> [b EXCEPT !.superclass_field = Some(superclass)], raised |-> FALSE]

\* the constant with no body that add_enum_constant creates
SimpleEnumConstant == TypeSpec(<<>>, {}, <<>>, <<>>)

\* a variant of add_enum_constant that stores the constant before it looks at
\* the kind
AddEnumConstantBeforeKindCheck(b, name) ==
    [builder |-> [b EXCEPT !.enum_constants = DictSet(@, name, SimpleEnumConstant)],
     raised |-> b.kind # "ENUM"]

\* TypeSpec.Builder.add_enum_constant
TypeSpec_add_enum_constant(b, name) ==
    IF b.kind # "ENUM"
    THEN [builder |-> b, raised |-> TRUE]
    ELSE [builder |-> [b EXCEPT !.enum_constants = DictSet(@, name, SimpleEnumConstant)],
          raised |-> FALSE]

\* TypeSpec.Builder.add_enum_constant_with_class_body
TypeSpec_add_enum_constant_with_class_body(b, name, type_spec) ==
    IF b.kind # "ENUM"
    THEN [builder |-> b, raised |-> TRUE]
    ELSE [builder |-> [b EXCEPT !.enum_constants = DictSet(@, name, type_spec)],
          raised |-> FALSE]

\* TypeSpec.Builder.add_record_component with a TypeName argument
TypeSpec_add_record_component(b, type_name, name) ==
    IF b.kind # "RECORD"
    THEN [builder |-> b, raised |-> TRUE]
    ELSE [builder |-> [b EXCEPT !.record_components = Append(@, <<type_name, name>>)],
          raised |-> FALSE]

\* TypeSpec.Builder.add_modifiers: the set is updated, then checked
TypeSpec_add_modifiers(b, ms) ==
    [builder |-> [b EXCEPT !.modifiers = @ \cup ms],
     raised |-> check_class_modifiers(b.modifiers \cup ms)]

\* TypeSpec.Builder.add_field
TypeSpec_add_field(b, field_spec) ==
    [builder |-> [b EXCEPT !.fields = Append(@, field_spec)], raised |-> FALSE]

\* TypeSpec.Builder.add_method: a constructor or compact constructor with no
\* name is copied and the copy named after the type
TypeSpec_add_method(b, method_spec) ==
    LET named == IF method_spec.kind \in {"CONSTRUCTOR", "COMPACT_CONSTRUCTOR"}
                    /\ method_spec.name = <<>>
                 THEN [method_spec EXCEPT !.name = b.name]
                 ELSE method_spec
    IN [builder |-> [b EXCEPT !.methods = Append(@, named)], raised |-> FALSE]

\* TypeSpec.Builder.add_type
TypeSpec_add_type(b, type_spec) ==
    [builder |-> [b EXCEPT !.types = Append(@, type_spec)], raised |-> FALSE]

JavaLangEnum == ClassName_get(<<"j","a","v","a",".","l","a","n","g">>, <<<<"E","n","u","m">>>>)

\* TypeSpec.Builder.build: an enum builder with no superclass is given
\* java.lang.Enum, then the descriptor is made of copies of the builder's
\* fields. No branch of build raises.
TypeSpec_build(b) ==
    LET superclass_field == IF b.kind = "ENUM" /\ b.superclass_field = None
                            THEN Some(JavaLangEnum) ELSE b.superclass_field
    IN  [builder |-> [b EXCEPT !.superclass_field = superclass_field],
         spec |-> [name |-> b.name, kind |-> b.kind, modifiers |-> b.modifiers,
                   fields |-> b.fields, methods |-> b.methods,
                   superclass |-> superclass_field,
                   types |-> b.types,
                   enum_constants |-> b.enum_constants,
                   record_components |-> b.record_components]]

\* Code.__str__ and the __str__ of the descriptors: emit into a fresh CodeWriter
TypeSpec_str(t) == Str(CodeWriter(DefaultIndent), TypeSpec_emit(t))
MethodSpec_str(m) == WriterText(Run(CodeWriter(DefaultIndent), MethodSpec_emit(m)))
FieldSpec_str(f) == WriterText(Run(CodeWriter(DefaultIndent), FieldSpec_emit(f)))
ParameterSpec_str(p) == WriterText(Run(CodeWriter(DefaultIndent), ParameterSpec_emit(p)))

-----------------------------------------------------------------------------
(* java_file.py: JavaFile. The files of this model have no file comment    *)
(* and no static import. JavaFile.emit_to and JavaFile.emit construct       *)
(* their writers with the keyword type_spec_class_name, which               *)
(* CodeWriter.__init__ of code_writer.py does not take: the construction    *)
(* raises a TypeError, emit_to writes nothing and emit writes the package   *)
(* line and no more. The methods that resolve and emit the imports are      *)
(* modelled as they are written; emit does not reach them.                  *)

\* JavaFile.__init__
JavaFile(package_name, type_spec, indent, imports) ==
    [package_name |-> package_name, type_spec |-> type_spec, indent |-> indent,
     additional_imports |-> imports]

\* JavaFile._extract_wildcard_imports
extract_wildcard_imports(jf) ==
    {SubSeq(n, 1, Len(n) - 2) : n \in {m \in jf.additional_imports : EndsWith(m, <<".", "*">>)}}

\* the additional imports that JavaFile._merge_all_specific_imports takes for
\* specific ones
SpecificImports(jf) ==
    {n \in jf.additional_imports : ~EndsWith(n, <<".", "*">>) /\ Contains(n, ".")}

\* JavaFile._merge_all_specific_imports: package name -> set of simple names
merge_all_specific_imports(jf, collected_imports, wildcard_packages) ==
    LET kept == {n \in SpecificImports(jf) : RSplitDot(n)[1] \notin wildcard_packages}
        packages == {p \in DOMAIN collected_imports : p \notin wildcard_packages}
                    \cup {RSplitDot(n)[1] : n \in kept}
    IN [p \in packages |->
           (IF p \in DOMAIN collected_imports THEN collected_imports[p] ELSE {})
           \cup {RSplitDot(n)[2] : n \in {k \in kept : RSplitDot(k)[1] = p}}]

\* f"import {package}.*;"
WildcardLine(package) == <<"i","m","p","o","r","t"," ">> \o package \o <<".", "*", ";">>

\* f"import {package}.{simple_name};"
SpecificLine(package, name) == <<"i","m","p","o","r","t"," ">> \o package \o <<".">> \o name \o <<";">>

\* the <<package, simple name>> pairs of final_imports
ImportPairs(final_imports) ==
    UNION {{<<p, n>> : n \in final_imports[p]} : p \in DOMAIN final_imports}

\* the list all_imports of JavaFile._emit_all_imports, the sets iterated in the
\* orders wildcard_order and specific_order
all_imports(wildcard_order, specific_order) ==
    [i \in 1..Len(wildcard_order) |-> WildcardLine(wildcard_order[i])]
    \o [i \in 1..Len(specific_order) |-> SpecificLine(specific_order[i][1], specific_order[i][2])]

RECURSIVE EmitImportLines(_)
EmitImportLines(lines) ==
    IF lines = <<>> THEN <<>>
    ELSE <<EmitCall(Head(lines)), EmitCall(<<"\n">>)>> \o EmitImportLines(Tail(lines))

\* JavaFile._emit_all_imports, without static imports
emit_all_imports(imports) ==
    EmitImportLines(SortedStrings(imports))
    \o (IF imports # <<>> THEN <<EmitCall(<<"\n">>)>> ELSE <<>>)

\* the keywords with which JavaFile.emit_to and JavaFile.emit construct a
\* CodeWriter
FileWriterKeywords == {"indent", "type_spec_class_name"}

\* JavaFile.emit: the calls it makes on the writer, as far as the
\* construction of the import collector, which raises
JavaFile_emit(jf) ==
    (IF jf.package_name # <<>>
     THEN <<EmitCall(<<"p","a","c","k","a","g","e"," ">> \o jf.package_name \o <<";","\n","\n">>)>>
     ELSE <<>>)
    \o <<NewCodeWriterCall(FileWriterKeywords)>>

\* JavaFile.emit_to: the calls of the method, the first of which constructs
\* the writer that emit is to write to
JavaFile_emit_to(jf) == <<NewCodeWriterCall(FileWriterKeywords)>> \o JavaFile_emit(jf)

\* JavaFile.__str__: emit_to a StringIO
JavaFile_str(jf) == Str(CodeWriter(jf.indent), JavaFile_emit_to(jf))

\* JavaFile.builder(package_name, type_spec) and JavaFile.Builder.__init__:
\* the builder holds the TypeSpec it is given, the default indent and an
\* empty set of additional imports, kept here by value
FileBuilder(package_name, type_spec) ==
    [package_name |-> package_name, type_spec |-> type_spec, indent |-> DefaultIndent,
     additional_imports |-> {}]

\* JavaFile.Builder.indent
FileBuilder_indent(b, indent) == [b EXCEPT !.indent = indent]

\* JavaFile.Builder.add_additional_import
FileBuilder_add_additional_import(b, import_name) ==
    [b EXCEPT !.additional_imports = @ \cup {import_name}]

\* JavaFile.Builder.build: the file of the builder's fields
FileBuilder_build(b) == JavaFile(b.package_name, b.type_spec, b.indent, b.additional_imports)

-----------------------------------------------------------------------------
(* java_file.py: the containers of a JavaFile and of its builder. A dict    *)
(* or a set is an object on a heap and a field holds its address, so that   *)
(* two fields holding the same address share the container. The dict        *)
(* static_imports, ClassName -> set of member names, is kept as the set of  *)
(* its <<ClassName, member>> pairs: add_static_import never leaves a key    *)
(* with an empty set, and the inner sets are reached through the dict only. *)

\* a new container on the heap; its address is the new length of the heap
Allocate(h, container) == Append(h, container)

\* `x or {}` and `x or set()` of JavaFile.Builder.__init__: the argument is
\* replaced when it is None or an empty container
Falsy(h, x) == x = None \/ h[x[1]] = {}

\* JavaFile.Builder.__init__; static_arg and additional_arg are its arguments
\* static_imports and additional_imports, None or the address of a container
JavaFile_Builder(h, static_arg, additional_arg) ==
    LET h1 == IF Falsy(h, static_arg) THEN Allocate(h, {}) ELSE h
        s  == IF Falsy(h, static_arg) THEN Len(h1) ELSE static_arg[1]
        h2 == IF Falsy(h1, additional_arg) THEN Allocate(h1, {}) ELSE h1
        a  == IF Falsy(h1, additional_arg) THEN Len(h2) ELSE additional_arg[1]
    IN  [heap |-> h2, builder |-> [static_imports |-> s, additional_imports |-> a]]

\* JavaFile.builder
JavaFile_builder(h) == JavaFile_Builder(h, None, None)

\* JavaFile.to_builder: the descriptor's containers are the arguments
JavaFile_to_builder(h, jf) ==
    JavaFile_Builder(h, Some(jf.static_imports), Some(jf.additional_imports))

\* JavaFile.Builder.add_static_import with a ClassName argument
JavaFile_Builder_add_static_import(h, b, constant_class, constant_name) ==
    [h EXCEPT ![b.static_imports] = @ \cup {<<constant_class, constant_name>>}]

\* JavaFile.Builder.add_additional_import
JavaFile_Builder_add_additional_import(h, b, import_name) ==
    [h EXCEPT ![b.additional_imports] = @ \cup {import_name}]

\* JavaFile.Builder.build and JavaFile.__init__: the descriptor's fields are
\* the builder's containers
JavaFile_Builder_build(b) ==
    [static_imports |-> b.static_imports, additional_imports |-> b.additional_imports]

-----------------------------------------------------------------------------
(* code_base.py, util.py and the to_builder methods                        *)

\* CodeImpl.__init__
CodeImpl(code) == [code |-> code]

\* CodeImpl.emit
CodeImpl_emit(c) == <<EmitCall(c.code)>>

\* Code.__str__ on a CodeImpl
CodeImpl_str(c) == WriterText(Run(CodeWriter(DefaultIndent), CodeImpl_emit(c)))

\* CodeImpl.Builder.__init__: the code of a new builder is the empty string
CodeImpl_Builder == [code |-> <<>>]

\* CodeImpl.to_builder: a new builder, whatever the code of the descriptor
CodeImpl_to_builder(c) == CodeImpl_Builder

\* CodeImpl.Builder.build
CodeImpl_Builder_build(b) == CodeImpl(b.code)

\* CodeImpl.copy, which overrides Code.copy
CodeImpl_copy(c) == CodeImpl(c.code)

\* ClassName.copy of a ClassName with no annotation
ClassName_copy(cn) == ClassName(cn.package_name, cn.simple_names)

\* FieldSpec.to_builder and FieldSpec.Builder.__init__ for a field with no
\* annotation, javadoc or initializer: deep_copy of the type name is its
\* copy() and deep_copy of the modifiers is set.copy(), a set of the same
\* members
FieldSpec_to_builder(f) ==
    [type_name |-> ClassName_copy(f.type_name), name |-> f.name, modifiers |-> f.modifiers]

\* FieldSpec.Builder.build
FieldSpec_Builder_build(b) == FieldSpec(ClassName_copy(b.type_name), b.name, b.modifiers)

\* A descriptor or a builder of one of the classes with a to_builder method:
\* its class, its value, and for a JavaFile the heap its containers are on
Object(class, value, h) == [class |-> class, value |-> value, heap |-> h]

\* d.to_builder()
to_builder(d) ==
    CASE d.class = "FieldSpec" -> Object("FieldSpec", FieldSpec_to_builder(d.value), d.heap)
      [] d.class = "CodeImpl" -> Object("CodeImpl", CodeImpl_to_builder(d.value), d.heap)
      [] OTHER -> Object("JavaFile", JavaFile_to_builder(d.heap, d.value).builder,
                         JavaFile_to_builder(d.heap, d.value).heap)

\* b.build()
build(b) ==
    CASE b.class = "FieldSpec" -> Object("FieldSpec", FieldSpec_Builder_build(b.value), b.heap)
      [] b.class = "CodeImpl" -> Object("CodeImpl", CodeImpl_Builder_build(b.value), b.heap)
      [] OTHER -> Object("JavaFile", JavaFile_Builder_build(b.value), b.heap)

\* d.copy(): Code.copy is to_builder().build(), and CodeImpl has its own
copy(d) == IF d.class = "CodeImpl" THEN Object("CodeImpl", CodeImpl_copy(d.value), d.heap)
           ELSE build(to_builder(d))

-----------------------------------------------------------------------------
(* Bounds and inputs                                                       *)

MaxModCalls == 2
MaxFields == 2
MaxImports == 2
MaxAdds == 2
MaxValueLen == 3
MaxJoin == 3
MaxWriterCalls == 3
MaxFlowCalls == 5
MaxMethodCalls == 3
MaxTypeCalls == 3
MaxCopyCalls == 4
MaxCopyObjects == 2
MaxSegments == 3
MaxRefs == 3
MaxDepth == 2

\* the argument lists of add_modifiers: one modifier or two
ModifierArgs == {{m, n} : m, n \in Modifier}

JavaUtilList == ClassName_get(<<"j","a","v","a",".","u","t","i","l">>, <<<<"L","i","s","t">>>>)
JavaAwtList == ClassName_get(<<"j","a","v","a",".","a","w","t">>, <<<<"L","i","s","t">>>>)
JavaLangString == ClassName_get(<<"j","a","v","a",".","l","a","n","g">>, <<<<"S","t","r","i","n","g">>>>)
JavaLangSystem == ClassName_get(<<"j","a","v","a",".","l","a","n","g">>, <<<<"S","y","s","t","e","m">>>>)
JavaUtilMapEntry == ClassName_get(<<"j","a","v","a",".","u","t","i","l">>, <<<<"M","a","p">>, <<"E","n","t","r","y">>>>)
JavaIoFile == ClassName_get(<<"j","a","v","a",".","i","o">>, <<<<"F","i","l","e">>>>)
WorldWorld == ClassName_get(<<"w","o","r","l","d">>, <<<<"W","o","r","l","d">>>>)
IntType == TypeName_get(<<"i","n","t">>)

\* the types of the fields added to the class
FieldTypes == <<JavaUtilList, JavaAwtList, JavaLangString, JavaUtilMapEntry, JavaIoFile, IntType>>

\* the arguments of add_additional_import
ImportChoices == <<<<"j","a","v","a",".","u","t","i","l",".","*">>, <<"j","a","v","a",".","a","w","t",".","*">>, <<"j","a","v","a",".","u","t","i","l",".","L","i","s","t">>, <<"j","a","v","a",".","i","o",".","F","i","l","e">>>>

\* the name of the i-th field
FieldName(i) == <<"f", Chars[Ord("0") + i]>>

\* the format strings and the argument lists of CodeBlock.Builder.add
IndexedTemplate == <<"$","1","T",".","o","u","t",".","p","r","i","n","t","l","n","(","$","1","S",")">>
FormatChoices == <<<<"$","L">>, <<"t","e","s","t">>, <<"t","e","s","t"," ","$","L">>, <<"$","T",".","o","u","t",".","p","r","i","n","t","l","n","(","$","S",")">>, IndexedTemplate>>
ArgChoices ==
    << <<>>, <<StrArg(<<"t","a","c","o">>)>>, <<TypeArg(JavaLangSystem)>>,
       <<TypeArg(JavaLangSystem), StrArg(<<"t","a","c","o">>)>> >>

\* the values bound to $S: the strings over these characters
QuoteChars == {"a", "\"", "\\", "\n"}
QuoteValues == UNION {[1..n -> QuoteChars] : n \in 0..MaxValueLen}

\* the blocks and separators of join_to_code
BlockChoices ==
    <<CodeBlock_of(<<"$","S">>, <<StrArg(<<"h","e","l","l","o">>)>>), CodeBlock_of(<<"$","T">>, <<TypeArg(WorldWorld)>>),
      CodeBlock_of(<<"n","e","e","d"," ","t","a","c","o","s">>, <<>>)>>
SepChoices == <<<<" ","|","|"," ">>, <<","," ">>, <<"$","L">>>>
AffixChoices == << <<<<"s","t","a","r","t"," ","{">>, <<"}"," ","e","n","d">>>>, <<<<"[">>, <<"]">>>> >>

\* the indent strings of CodeWriter.__init__, the texts of emit and the
\* control flow strings
IndentChoices == <<DefaultIndent, <<"	">>>>
EmitTexts == <<<<>>, <<"a">>, <<"a","\n">>, <<"a","\n","\n">>, <<"\n">>, <<"\n","\n">>, <<"\n","a">>, <<"a","\n","b">>, <<"a","\n","\n","b">>, <<"\n","\n","b">>, <<"a","\n","b","\n">>>>
ControlFlowStrings == <<<<"i","f"," ","(","x",")">>, <<"e","l","s","e">>>>

\* the types of emit_type and the texts of LineWrapper.append; the writer
\* of max_line_length 4 wraps the second append of three characters
EmitTypeChoices == <<JavaUtilList, TypeName_get(<<"i","n","t">>)>>
AppendTexts == <<<<"a","b","c">>, <<"\n">>>>

\* the control flow headers and continuations and the statements of a
\* CodeBlock builder, each with its arguments
HeaderChoices == << <<<<"i","f"," ","(","$","L",")">>, <<StrArg(<<"x"," ",">"," ","0">>)>> >>, <<<<"w","h","i","l","e"," ","(","t","r","u","e",")">>, <<>> >> >>
ContinuationChoices == << <<<<"e","l","s","e"," ","i","f"," ","(","$","L",")">>, <<StrArg(<<"x"," ","<"," ","0">>)>> >>, <<<<"e","l","s","e">>, <<>> >> >>
StatementChoices == << <<<<"r","e","t","u","r","n"," ","$","S">>, <<StrArg(<<"y","e","s">>)>> >>, <<<<"c","o","u","n","t","+","+">>, <<>> >> >>

\* the builders of MethodSpec.method_builder, constructor_builder and
\* compact_constructor_builder, and the arguments of their add_modifiers
MethodBuilders ==
    {MethodSpec_Builder(<<"r","u","n">>, "METHOD"), MethodSpec_Builder(<<>>, "CONSTRUCTOR"),
     MethodSpec_Builder(<<>>, "COMPACT_CONSTRUCTOR")}
MethodModifierArgs == {{ABSTRACT}, {PUBLIC}, {STATIC}, {PUBLIC, ABSTRACT}, {NATIVE}}

\* the arguments of MethodSpec.Builder.default_value
DefaultValueChoices == << <<<<"$","S">>, <<StrArg(<<"n","o">>)>> >>, <<<<"0">>, <<>> >> >>
CodeChoices == << <<<<>>, <<>> >>, <<<<"$","T",".","o","u","t",".","p","r","i","n","t","l","n","(","$","S",")">>, <<TypeArg(JavaLangSystem), StrArg(<<"h","i">>)>> >> >>

\* the arguments of MethodSpec.__init__ for the methods emitted to a writer of
\* some depth: the code of a method, its default value and its modifiers
SinkCodes ==
    {None, Some(CodeBlock(<<>>, <<>>)),
     Some(Builder_build(Builder_add_statement(NewBuilder, <<"c","o","u","n","t","+","+">>, <<>>))),
     Some(Builder_build(Builder_end_control_flow(Builder_add_statement(
         Builder_begin_control_flow(NewBuilder, <<"w","h","i","l","e"," ","(","t","r","u","e",")">>, <<>>), <<"c","o","u","n","t","+","+">>, <<>>))))}
SinkDefaults == {None, Some(CodeBlock_of(<<"0">>, <<>>))}
SinkModifierSets == SUBSET {ABSTRACT, NATIVE, PUBLIC}
SinkMethods ==
    {[MethodSpec(<<"r","u","n">>, ms, <<>>, None, code, default_value) EXCEPT !.kind = kind] :
         ms \in SinkModifierSets, code \in SinkCodes, default_value \in SinkDefaults,
         kind \in {"METHOD", "CONSTRUCTOR"}}

\* the arguments of TypeSpec.__init__ for the types emitted to a writer of
\* some depth: a class with a method, an enum whose constant has a class
\* body with a method, and types that nest one of these
SinkMethod == MethodSpec(<<"r","u","n">>, {}, <<>>, None,
                         Some(Builder_build(Builder_add_statement(NewBuilder, <<"c","o","u","n","t","+","+">>, <<>>))),
                         None)
SinkLeafTypes ==
    {TypeSpec(<<"I","n","n","e","r">>, {}, fields, methods) :
         fields \in {<<>>, <<FieldSpec(IntType, <<"x">>, {PRIVATE})>>},
         methods \in {<<>>, <<SinkMethod>>}}
    \cup {[TypeSpec(<<"C","o","l","o","r">>, {}, <<>>, methods)
            EXCEPT !.kind = "ENUM",
                   !.enum_constants = <<[name |-> <<"R","E","D">>, constant |-> body]>>] :
              methods \in {<<>>, <<SinkMethod>>},
              body \in {TypeSpec(<<>>, {}, <<>>, <<>>), TypeSpec(<<>>, {}, <<>>, <<SinkMethod>>)}}
SinkTypes ==
    SinkLeafTypes
    \cup {[TypeSpec(<<"O","u","t","e","r">>, {}, <<>>, methods) EXCEPT !.types = <<inner>>] :
              methods \in {<<>>, <<SinkMethod>>}, inner \in SinkLeafTypes}

\* the kinds of TypeSpec.Kind and a builder of each, the arguments of
\* superclass, the names of enum constants, a class body for one, and the
\* record components
TypeKinds == {"CLASS", "INTERFACE", "ENUM", "ANNOTATION", "RECORD"}
TypeBuilders == {TypeSpec_Builder(<<"T","e","s","t">>, kind) : kind \in TypeKinds}
SuperclassChoices == <<JavaUtilList, JavaLangString>>
ConstantNames == <<<<"R","E","D">>, <<"G","R","E","E","N">>>>
ClassBodyChoices == <<TypeSpec(<<>>, {}, <<FieldSpec(IntType, <<"x">>, {PRIVATE})>>, <<>>)>>
ComponentChoices == << <<IntType, <<"x">>>>, <<JavaLangString, <<"n","a","m","e">>>> >>

\* the arguments of add_modifiers, add_field, add_method and add_type on a
\* type builder: the method run and a constructor with no name
TypeModifierArgs == {{PUBLIC}, {FINAL}, {ABSTRACT}}
MemberFields == <<FieldSpec(IntType, <<"x">>, {PRIVATE})>>
MemberMethods ==
    <<SinkMethod,
      [MethodSpec(<<>>, {PUBLIC}, <<>>, None, Some(CodeBlock(<<>>, <<>>)), None)
          EXCEPT !.kind = "CONSTRUCTOR"]>>
MemberTypes == <<TypeSpec(<<"I","n","n","e","r">>, {}, <<>>, <<>>)>>

\* the arguments of add_static_import and of add_additional_import on the
\* builders of SpecCopy
JavaUtilCollections == ClassName_get(<<"j","a","v","a",".","u","t","i","l">>, <<<<"C","o","l","l","e","c","t","i","o","n","s">>>>)
StaticImportChoices == << <<JavaLangSystem, <<"o","u","t">>>>, <<JavaUtilCollections, <<"*">>>> >>
CopyImportChoices == <<<<"j","a","v","a",".","a","w","t",".","*">>, <<"j","a","v","a",".","i","o",".","F","i","l","e">>>>

\* the descriptors with a to_builder method: fields, CodeImpl values and
\* JavaFile descriptors of builders with additional imports
FieldModifierChoices == {{}, {PRIVATE}, {PRIVATE, FINAL}, {PUBLIC, STATIC}}
FieldDescriptors ==
    {Object("FieldSpec", FieldSpec(FieldTypes[i], FieldName(j), ms), <<>>) :
        i \in 1..Len(FieldTypes), j \in 1..MaxFields, ms \in FieldModifierChoices}
CodeDescriptors == {Object("CodeImpl", CodeImpl(EmitTexts[i]), <<>>) : i \in 1..Len(EmitTexts)}
FileDescriptors ==
    {Object("JavaFile", JavaFile_Builder_build(JavaFile_builder(<<>>).builder),
            [JavaFile_builder(<<>>).heap EXCEPT ![JavaFile_builder(<<>>).builder.additional_imports] = imports]) :
        imports \in SUBSET {CopyImportChoices[i] : i \in 1..Len(CopyImportChoices)}}
Descriptors == FieldDescriptors \cup CodeDescriptors \cup FileDescriptors

RECURSIVE SeqsUpTo(_, _)
SeqsUpTo(S, n) ==
    IF n = 0 THEN {<<>>}
    ELSE SeqsUpTo(S, n - 1) \cup {Append(q, x) : q \in {r \in SeqsUpTo(S, n - 1) : Len(r) = n - 1}, x \in S}

\* the class names and the type variable names of the references of SpecEq
JavaLangObject == ClassName_get(<<"j","a","v","a",".","l","a","n","g">>, <<<<"O","b","j","e","c","t">>>>)
RefClassNames == <<JavaLangString, JavaLangObject, JavaUtilList>>
RefVariableNames == <<<<"T">>, <<"U">>>>

\* the strings handed to the ClassName factories: up to MaxSegments segments
\* joined by dots, a segment being empty, in lower case, or beginning with an
\* uppercase letter of ASCII or with one outside ASCII
NameSegments == {<<>>, <<"a">>, <<"B">>, <<"Ñ">>}
FqcnChoices == {Join(q, <<".">>) : q \in SeqsUpTo(NameSegments, MaxSegments) \ {<<>>}}

-----------------------------------------------------------------------------
(* The state machines                                                      *)

\* no call was made on the writer yet
NoCall == [op |-> "none", arg |-> <<>>, before |-> <<>>, n |-> 0]

IdleMod ==
    /\ modKind = "type" /\ modifiers = {} /\ modRaised = FALSE /\ modCalls = 0
    /\ modRendered = NotRendered
IdleFile ==
    /\ jfTypeBuilder = TypeSpec_Builder(<<"T","e","s","t">>, "CLASS")
    /\ jfSpec = None /\ jfBuilder = None /\ jfOut = NotRendered
IdleBlock == format_parts = <<>> /\ args = <<>> /\ cbCalls = <<>> /\ cbOut = NotRendered
IdleJoin == joinBlocks = <<>> /\ joinSep = <<>> /\ joinOut = NotRendered
IdleWriter == writer = CodeWriter(DefaultIndent) /\ writerLast = NoCall /\ wrapper = None
IdleMethod ==
    /\ methodBuilder = MethodSpec_Builder(<<"r","u","n">>, "METHOD")
    /\ methodCalls = <<>> /\ methodOut = NotRendered
IdleType ==
    /\ typeBuilder = TypeSpec_Builder(<<"T","e","s","t">>, "CLASS")
    /\ typeLast = [op |-> "none", raised |-> FALSE, before |-> <<>>, n |-> 0]
    /\ typeOut = NotRendered
IdleCopy ==
    /\ heap = JavaFile_builder(<<>>).heap
    /\ jfBuilders = <<[of |-> 0] @@ JavaFile_builder(<<>>).builder>>
    /\ jfFiles = <<>>
    /\ copyLast = [op |-> "none", builder |-> 0, arg |-> <<>>, before |-> <<>>, n |-> 0]
IdleTrip ==
    /\ rtDescriptor = Object("CodeImpl", CodeImpl(<<>>), <<>>)
    /\ rtBuilder = None /\ rtCopy = None
IdleName == nameInput = <<>> /\ nameMade = None /\ nameOut = NotRendered
IdleEq == refs = <<>>
IdleEmit ==
    /\ emSubject = [class |-> "method",
                    value |-> MethodSpec(<<"r","u","n">>, {}, <<>>, None, None, None)]
    /\ emWriter = CodeWriter(DefaultIndent) /\ emStart = None

\* the builders and writers of every area but one are as constructed
IdleExcept(area) ==
    /\ (area = "mod" \/ IdleMod)
    /\ (area = "file" \/ IdleFile)
    /\ (area = "block" \/ IdleBlock)
    /\ (area = "join" \/ IdleJoin)
    /\ (area = "writer" \/ IdleWriter)
    /\ (area = "method" \/ IdleMethod)
    /\ (area = "type" \/ IdleType)
    /\ (area = "copy" \/ IdleCopy)
    /\ (area = "trip" \/ IdleTrip)
    /\ (area = "name" \/ IdleName)
    /\ (area = "eq" \/ IdleEq)
    /\ (area = "emit" \/ IdleEmit)

\* a call on an object of one area touches no object of another
Frame(area) ==
    /\ IF area = "mod" THEN TRUE ELSE UNCHANGED modVars
    /\ IF area = "file" THEN TRUE ELSE UNCHANGED fileVars
    /\ IF area = "block" THEN TRUE ELSE UNCHANGED blockVars
    /\ IF area = "join" THEN TRUE ELSE UNCHANGED joinVars
    /\ IF area = "writer" THEN TRUE ELSE UNCHANGED writerVars
    /\ IF area = "method" THEN TRUE ELSE UNCHANGED methodVars
    /\ IF area = "type" THEN TRUE ELSE UNCHANGED typeVars
    /\ IF area = "copy" THEN TRUE ELSE UNCHANGED copyVars
    /\ IF area = "trip" THEN TRUE ELSE UNCHANGED tripVars
    /\ IF area = "name" THEN TRUE ELSE UNCHANGED nameVars
    /\ IF area = "eq" THEN TRUE ELSE UNCHANGED eqVars
    /\ IF area = "emit" THEN TRUE ELSE UNCHANGED emitVars

\* In each of the state machines below the descriptor is built and rendered
\* once, after the last call on its builder.

\* ---- a builder's add_modifiers calls, then build() and str()

InitMod ==
    /\ modKind \in {"type", "method", "field", "parameter"}
    /\ modifiers = {} /\ modRaised = FALSE /\ modCalls = 0 /\ modRendered = NotRendered
    /\ IdleExcept("mod")

\* whether the check add_modifiers makes after its update raises
ModifierCheckRaises(kind, ms) ==
    CASE kind = "type" -> check_class_modifiers(ms)
      [] kind = "method" -> check_method_modifiers(ms)
      [] kind = "field" -> check_field_modifiers(ms)
      [] OTHER -> FALSE

\* Builder.add_modifiers: the set is updated, then checked
AddModifiers(ms) ==
    /\ modRendered.status = "none"
    /\ modCalls < MaxModCalls
    /\ modifiers' = modifiers \cup ms
    /\ modRaised' = ModifierCheckRaises(modKind, modifiers')
    /\ modCalls' = modCalls + 1
    /\ UNCHANGED <<modKind, modRendered>>
    /\ Frame("mod")

\* str() of the descriptor that build() returns for the modifier set ms
DeclarationText(kind, ms) ==
    CASE kind = "type" -> TypeSpec_str(TypeSpec(<<"T","e","s","t">>, ms, <<>>, <<>>))
      [] kind = "method" -> MethodSpec_str(MethodSpec(<<"r","u","n">>, ms, <<>>, None, Some(CodeBlock(<<>>, <<>>)), None))
      [] kind = "field" -> FieldSpec_str(FieldSpec(IntType, <<"c","o","u","n","t">>, ms))
      [] OTHER -> ParameterSpec_str(ParameterSpec(IntType, <<"c","o","u","n","t">>, ms))

\* Builder.build() and str() of the descriptor
BuildAndRenderDeclaration ==
    /\ modRendered.status = "none"
    /\ modRendered' = Outcome(DeclarationText(modKind, modifiers), modifiers)
    /\ UNCHANGED <<modKind, modifiers, modRaised, modCalls>>
    /\ Frame("mod")

NextMod == (\E ms \in ModifierArgs : AddModifiers(ms)) \/ BuildAndRenderDeclaration

SpecMod == InitMod /\ [][NextMod]_vars

\* ---- a JavaFile of a class with fields: add_field on the TypeSpec builder
\* ---- and its build(), JavaFile.builder of the TypeSpec built, indent and
\* ---- add_additional_import on the JavaFile builder, then build() and str()

InitFile ==
    /\ jfTypeBuilder = TypeSpec_Builder(<<"T","e","s","t">>, "CLASS")
    /\ jfSpec = None /\ jfBuilder = None /\ jfOut = NotRendered
    /\ IdleExcept("file")

\* TypeSpec.Builder.add_field(FieldSpec.builder(type_name, name).build())
AddField(type_name) ==
    /\ jfOut.status = "none"
    /\ Len(jfTypeBuilder.fields) < MaxFields
    /\ jfTypeBuilder' = TypeSpec_add_field(jfTypeBuilder,
                            FieldSpec(type_name, FieldName(Len(jfTypeBuilder.fields) + 1), {})).builder
    /\ UNCHANGED <<jfSpec, jfBuilder, jfOut>>
    /\ Frame("file")

\* TypeSpec.Builder.build(): the descriptor holds copies of the builder's
\* fields
BuildFileType ==
    /\ jfOut.status = "none"
    /\ jfTypeBuilder' = TypeSpec_build(jfTypeBuilder).builder
    /\ jfSpec' = Some(TypeSpec_build(jfTypeBuilder).spec)
    /\ UNCHANGED <<jfBuilder, jfOut>>
    /\ Frame("file")

\* JavaFile.builder(package_name, type_spec) of the TypeSpec built last
NewFileBuilder ==
    /\ jfOut.status = "none"
    /\ jfSpec # None
    /\ jfBuilder' = Some(FileBuilder(<<"c","o","m",".","e","x","a","m","p","l","e">>, jfSpec[1]))
    /\ UNCHANGED <<jfTypeBuilder, jfSpec, jfOut>>
    /\ Frame("file")

\* JavaFile.Builder.indent
FileIndent(indent) ==
    /\ jfOut.status = "none"
    /\ jfBuilder # None
    /\ jfBuilder' = Some(FileBuilder_indent(jfBuilder[1], indent))
    /\ UNCHANGED <<jfTypeBuilder, jfSpec, jfOut>>
    /\ Frame("file")

\* JavaFile.Builder.add_additional_import
AddAdditionalImport(import_name) ==
    /\ jfOut.status = "none"
    /\ jfBuilder # None
    /\ Cardinality(jfBuilder[1].additional_imports) < MaxImports
    /\ jfBuilder' = Some(FileBuilder_add_additional_import(jfBuilder[1], import_name))
    /\ UNCHANGED <<jfTypeBuilder, jfSpec, jfOut>>
    /\ Frame("file")

\* the JavaFile that build() of the JavaFile builder returns
BuiltFile == FileBuilder_build(jfBuilder[1])

\* JavaFile.Builder.build() and str() of the file
BuildAndRenderFile ==
    /\ jfOut.status = "none"
    /\ jfBuilder # None
    /\ jfOut' = Outcome(JavaFile_str(BuiltFile), BuiltFile)
    /\ UNCHANGED <<jfTypeBuilder, jfSpec, jfBuilder>>
    /\ Frame("file")

NextFile ==
    \/ \E i \in 1..Len(FieldTypes) : AddField(FieldTypes[i])
    \/ BuildFileType
    \/ NewFileBuilder
    \/ \E i \in 1..Len(IndentChoices) : FileIndent(IndentChoices[i])
    \/ \E i \in 1..Len(ImportChoices) : AddAdditionalImport(ImportChoices[i])
    \/ BuildAndRenderFile

SpecFile == InitFile /\ [][NextFile]_vars

\* ---- a CodeBlock builder: add calls, then build() and str()

InitBlock == IdleExcept("block")
             /\ format_parts = <<>> /\ args = <<>> /\ cbCalls = <<>> /\ cbOut = NotRendered

\* CodeBlock.Builder.add(format_string, *arguments)
Add(format_string, arguments) ==
    /\ cbOut.status = "none"
    /\ Len(cbCalls) < MaxAdds
    /\ LET b == Builder_add([format_parts |-> format_parts, args |-> args],
                            format_string, arguments)
       IN format_parts' = b.format_parts /\ args' = b.args
    /\ cbCalls' = Append(cbCalls, [format |-> format_string, args |-> arguments])
    /\ UNCHANGED <<cbOut>>
    /\ Frame("block")

\* CodeBlock.Builder.build() and str() of the block
BuildAndRenderBlock ==
    /\ cbOut.status = "none"
    /\ LET cb == Builder_build([format_parts |-> format_parts, args |-> args])
       IN cbOut' = Rendered(CodeBlock_str(cb), [block |-> cb, calls |-> cbCalls])
    /\ UNCHANGED <<format_parts, args, cbCalls>>
    /\ Frame("block")

NextBlock ==
    \/ \E f \in 1..Len(FormatChoices), a \in 1..Len(ArgChoices) :
           Add(FormatChoices[f], ArgChoices[a])
    \/ BuildAndRenderBlock

SpecBlock == InitBlock /\ [][NextBlock]_vars

\* ---- CodeBlock.of with the quoted-string placeholder, then str()

\* CodeBlock.Builder.add with the quoted-string placeholder and one value
AddQuoted(value) ==
    /\ cbCalls = <<>>
    /\ Add(<<"$", "S">>, <<StrArg(value)>>)

NextQuote == (\E v \in QuoteValues : AddQuoted(v)) \/ BuildAndRenderBlock

SpecQuote == InitBlock /\ [][NextQuote]_vars

\* ---- a CodeBlock builder: control flow calls and statements, then build()
\* ---- and str()

\* the builder after a call, and the call recorded
FlowCall(op, format_string, arguments, b) ==
    /\ format_parts' = b.format_parts /\ args' = b.args
    /\ cbCalls' = Append(cbCalls, [op |-> op, format |-> format_string, args |-> arguments])

\* CodeBlock.Builder.begin_control_flow(control_flow_string, *arguments)
BuilderBeginControlFlow(control_flow_string, arguments) ==
    /\ cbOut.status = "none"
    /\ Len(cbCalls) < MaxFlowCalls
    /\ FlowCall("begin_control_flow", control_flow_string, arguments,
                Builder_begin_control_flow([format_parts |-> format_parts, args |-> args],
                                           control_flow_string, arguments))
    /\ UNCHANGED <<cbOut>>
    /\ Frame("block")

\* CodeBlock.Builder.add_statement(format_string, *arguments)
BuilderAddStatement(format_string, arguments) ==
    /\ cbOut.status = "none"
    /\ Len(cbCalls) < MaxFlowCalls
    /\ FlowCall("add_statement", format_string, arguments,
                Builder_add_statement([format_parts |-> format_parts, args |-> args],
                                      format_string, arguments))
    /\ UNCHANGED <<cbOut>>
    /\ Frame("block")

\* CodeBlock.Builder.next_control_flow(control_flow_string, *arguments)
BuilderNextControlFlow(control_flow_string, arguments) ==
    /\ cbOut.status = "none"
    /\ Len(cbCalls) < MaxFlowCalls
    /\ FlowCall("next_control_flow", control_flow_string, arguments,
                Builder_next_control_flow([format_parts |-> format_parts, args |-> args],
                                          control_flow_string, arguments))
    /\ UNCHANGED <<cbOut>>
    /\ Frame("block")

\* CodeBlock.Builder.end_control_flow()
BuilderEndControlFlow ==
    /\ cbOut.status = "none"
    /\ Len(cbCalls) < MaxFlowCalls
    /\ FlowCall("end_control_flow", <<>>, <<>>,
                Builder_end_control_flow([format_parts |-> format_parts, args |-> args]))
    /\ UNCHANGED <<cbOut>>
    /\ Frame("block")

NextFlow ==
    \/ \E i \in 1..Len(HeaderChoices) :
           BuilderBeginControlFlow(HeaderChoices[i][1], HeaderChoices[i][2])
    \/ \E i \in 1..Len(StatementChoices) :
           BuilderAddStatement(StatementChoices[i][1], StatementChoices[i][2])
    \/ \E i \in 1..Len(ContinuationChoices) :
           BuilderNextControlFlow(ContinuationChoices[i][1], ContinuationChoices[i][2])
    \/ BuilderEndControlFlow
    \/ BuildAndRenderBlock

SpecFlow == InitBlock /\ [][NextFlow]_vars

\* ---- CodeBlock.join_to_code

InitJoin ==
    /\ IdleExcept("join")
    /\ joinBlocks \in SeqsUpTo({BlockChoices[i] : i \in 1..Len(BlockChoices)}, MaxJoin)
    /\ joinSep \in {SepChoices[i] : i \in 1..Len(SepChoices)}
    /\ joinOut = NotRendered

\* str(CodeBlock.join_to_code(code_blocks, separator))
JoinToCode ==
    /\ joinOut.status = "none"
    /\ joinOut' = Rendered(CodeBlock_str(join_to_code(joinBlocks, joinSep)),
                           [prefix |-> <<>>, suffix |-> <<>>])
    /\ UNCHANGED <<joinBlocks, joinSep>>
    /\ Frame("join")

\* CodeBlock.join_to_code(code_blocks, separator, prefix, suffix): the method
\* takes two arguments, the call raises TypeError
JoinWithPrefixAndSuffix(prefix, suffix) ==
    /\ joinOut.status = "none"
    /\ joinOut' = Raised([prefix |-> prefix, suffix |-> suffix])
    /\ UNCHANGED <<joinBlocks, joinSep>>
    /\ Frame("join")

NextJoin ==
    \/ JoinToCode
    \/ \E i \in 1..Len(AffixChoices) : JoinWithPrefixAndSuffix(AffixChoices[i][1], AffixChoices[i][2])

SpecJoin == InitJoin /\ [][NextJoin]_vars

\* ---- a CodeWriter: emit, emit_type, emit_statement, the indent calls, the
\* ---- control flow calls, and the appends of a LineWrapper made from it.
\* ---- CodeWriter names its indent calls indent_more and indent_less

\* the record of a call of the method op with the argument arg
Called(op, arg) == [op |-> op, arg |-> arg, before |-> writer, n |-> writerLast.n + 1]

InitWriter ==
    /\ writer \in {CodeWriter(IndentChoices[i]) : i \in 1..Len(IndentChoices)}
                  \cup {CodeWriter_init(DefaultIndent, 4)}
    /\ writerLast = NoCall /\ wrapper = None
    /\ IdleExcept("writer")

\* CodeWriter.emit
Emit(text) ==
    /\ writerLast.n < MaxWriterCalls
    /\ writer' = emit(writer, text)
    /\ writerLast' = Called("emit", text)
    /\ UNCHANGED wrapper
    /\ Frame("writer")

\* CodeWriter.indent_more
IndentMore ==
    /\ writerLast.n < MaxWriterCalls
    /\ writer' = indent_more(writer)
    /\ writerLast' = Called("indent_more", <<>>)
    /\ UNCHANGED wrapper
    /\ Frame("writer")

\* CodeWriter.indent_less
IndentLess ==
    /\ writerLast.n < MaxWriterCalls
    /\ writer' = indent_less(writer)
    /\ writerLast' = Called("indent_less", <<>>)
    /\ UNCHANGED wrapper
    /\ Frame("writer")

\* CodeWriter.begin_control_flow
BeginControlFlow(control_flow_string) ==
    /\ writerLast.n < MaxWriterCalls
    /\ writer' = begin_control_flow(writer, control_flow_string)
    /\ writerLast' = Called("begin_control_flow", control_flow_string)
    /\ UNCHANGED wrapper
    /\ Frame("writer")

\* CodeWriter.next_control_flow
NextControlFlow(control_flow_string) ==
    /\ writerLast.n < MaxWriterCalls
    /\ writer' = next_control_flow(writer, control_flow_string)
    /\ writerLast' = Called("next_control_flow", control_flow_string)
    /\ UNCHANGED wrapper
    /\ Frame("writer")

\* CodeWriter.end_control_flow
EndControlFlow ==
    /\ writerLast.n < MaxWriterCalls
    /\ writer' = end_control_flow(writer)
    /\ writerLast' = Called("end_control_flow", <<>>)
    /\ UNCHANGED wrapper
    /\ Frame("writer")

\* CodeWriter.emit_type of a ClassName
EmitType(type_name) ==
    /\ writerLast.n < MaxWriterCalls
    /\ writer' = emit_type(writer, type_name)
    /\ writerLast' = Called("emit_type", type_name)
    /\ UNCHANGED wrapper
    /\ Frame("writer")

\* CodeWriter.emit_statement
EmitStatement(format_string, arguments) ==
    /\ writerLast.n < MaxWriterCalls
    /\ writer' = emit_statement(writer, format_string, arguments)
    /\ writerLast' = Called("emit_statement", <<format_string, arguments>>)
    /\ UNCHANGED wrapper
    /\ Frame("writer")

\* CodeWriter.line_wrapper
LineWrapper ==
    /\ writerLast.n < MaxWriterCalls
    /\ wrapper' = Some(line_wrapper(writer))
    /\ writerLast' = Called("line_wrapper", <<>>)
    /\ UNCHANGED writer
    /\ Frame("writer")

\* LineWrapper.append on the wrapper of the writer
LineWrapperAppend(text) ==
    /\ writerLast.n < MaxWriterCalls
    /\ wrapper # None
    /\ wrapper' = Some(LineWrapper_append(wrapper[1], writer, text).wrapper)
    /\ writer' = LineWrapper_append(wrapper[1], writer, text).writer
    /\ writerLast' = Called("append", text)
    /\ Frame("writer")

NextWriter ==
    \/ \E i \in 1..Len(EmitTexts) : Emit(EmitTexts[i])
    \/ IndentMore
    \/ IndentLess
    \/ \E i \in 1..Len(ControlFlowStrings) : BeginControlFlow(ControlFlowStrings[i])
    \/ \E i \in 1..Len(ControlFlowStrings) : NextControlFlow(ControlFlowStrings[i])
    \/ EndControlFlow
    \/ \E i \in 1..Len(EmitTypeChoices) : EmitType(EmitTypeChoices[i])
    \/ \E i \in 1..Len(StatementChoices) : EmitStatement(StatementChoices[i][1], StatementChoices[i][2])
    \/ LineWrapper
    \/ \E i \in 1..Len(AppendTexts) : LineWrapperAppend(AppendTexts[i])

SpecWriter == InitWriter /\ [][NextWriter]_vars

\* ---- a MethodSpec builder: add_modifiers, the body calls and default_value,
\* ---- then build() and str()

InitMethod ==
    /\ methodBuilder \in MethodBuilders
    /\ methodCalls = <<>> /\ methodOut = NotRendered
    /\ IdleExcept("method")

\* the builder after a call, and the call recorded
MethodCall(op, result) ==
    /\ methodBuilder' = result.builder
    /\ methodCalls' = Append(methodCalls, [op |-> op, raised |-> result.raised])

\* MethodSpec.Builder.add_modifiers
MethodAddModifiers(ms) ==
    /\ methodOut.status = "none" /\ Len(methodCalls) < MaxMethodCalls
    /\ MethodCall("add_modifiers", MethodSpec_add_modifiers(methodBuilder, ms))
    /\ UNCHANGED methodOut
    /\ Frame("method")

\* MethodSpec.Builder.add_code
MethodAddCode(format_string, arguments) ==
    /\ methodOut.status = "none" /\ Len(methodCalls) < MaxMethodCalls
    /\ MethodCall("add_code", MethodSpec_add_code(methodBuilder, format_string, arguments))
    /\ UNCHANGED methodOut
    /\ Frame("method")

\* MethodSpec.Builder.add_statement
MethodAddStatement(format_string, arguments) ==
    /\ methodOut.status = "none" /\ Len(methodCalls) < MaxMethodCalls
    /\ MethodCall("add_statement",
                  MethodSpec_add_statement(methodBuilder, format_string, arguments))
    /\ UNCHANGED methodOut
    /\ Frame("method")

\* MethodSpec.Builder.begin_control_flow
MethodBeginControlFlow(control_flow_string, arguments) ==
    /\ methodOut.status = "none" /\ Len(methodCalls) < MaxMethodCalls
    /\ MethodCall("begin_control_flow",
                  MethodSpec_begin_control_flow(methodBuilder, control_flow_string, arguments))
    /\ UNCHANGED methodOut
    /\ Frame("method")

\* MethodSpec.Builder.next_control_flow
MethodNextControlFlow(control_flow_string, arguments) ==
    /\ methodOut.status = "none" /\ Len(methodCalls) < MaxMethodCalls
    /\ MethodCall("next_control_flow",
                  MethodSpec_next_control_flow(methodBuilder, control_flow_string, arguments))
    /\ UNCHANGED methodOut
    /\ Frame("method")

\* MethodSpec.Builder.end_control_flow
MethodEndControlFlow ==
    /\ methodOut.status = "none" /\ Len(methodCalls) < MaxMethodCalls
    /\ MethodCall("end_control_flow", MethodSpec_end_control_flow(methodBuilder))
    /\ UNCHANGED methodOut
    /\ Frame("method")

\* MethodSpec.Builder.default_value
MethodDefaultValue(format_string, arguments) ==
    /\ methodOut.status = "none" /\ Len(methodCalls) < MaxMethodCalls
    /\ MethodCall("default_value",
                  MethodSpec_default_value(methodBuilder, format_string, arguments))
    /\ UNCHANGED methodOut
    /\ Frame("method")

\* MethodSpec.Builder.build() and str() of the descriptor
BuildAndRenderMethod ==
    /\ methodOut.status = "none"
    /\ methodOut' = IF MethodSpec_build_raises(methodBuilder)
                    THEN Raised([message |-> AbstractBodyMessage])
                    ELSE Rendered(MethodSpec_str(MethodSpec_build(methodBuilder)),
                                  MethodSpec_build(methodBuilder))
    /\ UNCHANGED <<methodBuilder, methodCalls>>
    /\ Frame("method")

NextMethod ==
    \/ \E ms \in MethodModifierArgs : MethodAddModifiers(ms)
    \/ \E i \in 1..Len(CodeChoices) : MethodAddCode(CodeChoices[i][1], CodeChoices[i][2])
    \/ \E i \in 1..Len(StatementChoices) :
           MethodAddStatement(StatementChoices[i][1], StatementChoices[i][2])
    \/ \E i \in 1..Len(HeaderChoices) :
           MethodBeginControlFlow(HeaderChoices[i][1], HeaderChoices[i][2])
    \/ \E i \in 1..Len(ContinuationChoices) :
           MethodNextControlFlow(ContinuationChoices[i][1], ContinuationChoices[i][2])
    \/ MethodEndControlFlow
    \/ \E i \in 1..Len(DefaultValueChoices) :
           MethodDefaultValue(DefaultValueChoices[i][1], DefaultValueChoices[i][2])
    \/ BuildAndRenderMethod

SpecMethod == InitMethod /\ [][NextMethod]_vars

\* ---- a TypeSpec builder: add_modifiers, the member calls and the
\* ---- kind-restricted calls, then build() and str()

InitType ==
    /\ typeBuilder \in TypeBuilders
    /\ typeLast = [op |-> "none", raised |-> FALSE, before |-> <<>>, n |-> 0]
    /\ typeOut = NotRendered
    /\ IdleExcept("type")

\* the call recorded: its name, whether it raised, the builder before it
TypeCalled(op, result) ==
    [op |-> op, raised |-> result.raised, before |-> typeBuilder, n |-> typeLast.n + 1]

\* TypeSpec.Builder.superclass
TypeSuperclass(superclass) ==
    /\ typeOut.status = "none" /\ typeLast.n < MaxTypeCalls
    /\ typeBuilder' = TypeSpec_superclass(typeBuilder, superclass).builder
    /\ typeLast' = TypeCalled("superclass", TypeSpec_superclass(typeBuilder, superclass))
    /\ UNCHANGED typeOut
    /\ Frame("type")

\* TypeSpec.Builder.add_enum_constant
TypeAddEnumConstant(name) ==
    /\ typeOut.status = "none" /\ typeLast.n < MaxTypeCalls
    /\ typeBuilder' = TypeSpec_add_enum_constant(typeBuilder, name).builder
    /\ typeLast' = TypeCalled("add_enum_constant", TypeSpec_add_enum_constant(typeBuilder, name))
    /\ UNCHANGED typeOut
    /\ Frame("type")

\* TypeSpec.Builder.add_enum_constant_with_class_body
TypeAddEnumConstantWithClassBody(name, type_spec) ==
    /\ typeOut.status = "none" /\ typeLast.n < MaxTypeCalls
    /\ typeBuilder' = TypeSpec_add_enum_constant_with_class_body(typeBuilder, name, type_spec).builder
    /\ typeLast' = TypeCalled("add_enum_constant_with_class_body",
                              TypeSpec_add_enum_constant_with_class_body(typeBuilder, name, type_spec))
    /\ UNCHANGED typeOut
    /\ Frame("type")

\* TypeSpec.Builder.add_record_component
TypeAddRecordComponent(type_name, name) ==
    /\ typeOut.status = "none" /\ typeLast.n < MaxTypeCalls
    /\ typeBuilder' = TypeSpec_add_record_component(typeBuilder, type_name, name).builder
    /\ typeLast' = TypeCalled("add_record_component",
                              TypeSpec_add_record_component(typeBuilder, type_name, name))
    /\ UNCHANGED typeOut
    /\ Frame("type")

\* TypeSpec.Builder.add_modifiers
TypeAddModifiers(ms) ==
    /\ typeOut.status = "none" /\ typeLast.n < MaxTypeCalls
    /\ typeBuilder' = TypeSpec_add_modifiers(typeBuilder, ms).builder
    /\ typeLast' = TypeCalled("add_modifiers", TypeSpec_add_modifiers(typeBuilder, ms))
    /\ UNCHANGED typeOut
    /\ Frame("type")

\* TypeSpec.Builder.add_field
TypeAddField(field_spec) ==
    /\ typeOut.status = "none" /\ typeLast.n < MaxTypeCalls
    /\ typeBuilder' = TypeSpec_add_field(typeBuilder, field_spec).builder
    /\ typeLast' = TypeCalled("add_field", TypeSpec_add_field(typeBuilder, field_spec))
    /\ UNCHANGED typeOut
    /\ Frame("type")

\* TypeSpec.Builder.add_method
TypeAddMethod(method_spec) ==
    /\ typeOut.status = "none" /\ typeLast.n < MaxTypeCalls
    /\ typeBuilder' = TypeSpec_add_method(typeBuilder, method_spec).builder
    /\ typeLast' = TypeCalled("add_method", TypeSpec_add_method(typeBuilder, method_spec))
    /\ UNCHANGED typeOut
    /\ Frame("type")

\* TypeSpec.Builder.add_type
TypeAddType(type_spec) ==
    /\ typeOut.status = "none" /\ typeLast.n < MaxTypeCalls
    /\ typeBuilder' = TypeSpec_add_type(typeBuilder, type_spec).builder
    /\ typeLast' = TypeCalled("add_type", TypeSpec_add_type(typeBuilder, type_spec))
    /\ UNCHANGED typeOut
    /\ Frame("type")

\* TypeSpec.Builder.build() and str() of the descriptor; build never raises
BuildAndRenderType ==
    /\ typeOut.status = "none"
    /\ typeBuilder' = TypeSpec_build(typeBuilder).builder
    /\ typeOut' = Outcome(TypeSpec_str(TypeSpec_build(typeBuilder).spec),
                          TypeSpec_build(typeBuilder).spec)
    /\ UNCHANGED typeLast
    /\ Frame("type")

NextType ==
    \/ \E i \in 1..Len(SuperclassChoices) : TypeSuperclass(SuperclassChoices[i])
    \/ \E i \in 1..Len(ConstantNames) : TypeAddEnumConstant(ConstantNames[i])
    \/ \E i \in 1..Len(ConstantNames), j \in 1..Len(ClassBodyChoices) :
           TypeAddEnumConstantWithClassBody(ConstantNames[i], ClassBodyChoices[j])
    \/ \E i \in 1..Len(ComponentChoices) :
           TypeAddRecordComponent(ComponentChoices[i][1], ComponentChoices[i][2])
    \/ \E ms \in TypeModifierArgs : TypeAddModifiers(ms)
    \/ \E i \in 1..Len(MemberFields) : TypeAddField(MemberFields[i])
    \/ \E i \in 1..Len(MemberMethods) : TypeAddMethod(MemberMethods[i])
    \/ \E i \in 1..Len(MemberTypes) : TypeAddType(MemberTypes[i])
    \/ BuildAndRenderType

SpecType == InitType /\ [][NextType]_vars

\* ---- JavaFile builders and descriptors: add_static_import and
\* ---- add_additional_import on a builder, build() of a builder and
\* ---- to_builder() of a descriptor. A builder remembers the descriptor it was
\* ---- derived from (`of`, 0 for JavaFile.builder) and a descriptor the
\* ---- builder that built it (`by`).

InitCopy ==
    /\ heap = JavaFile_builder(<<>>).heap
    /\ jfBuilders = <<[of |-> 0] @@ JavaFile_builder(<<>>).builder>>
    /\ jfFiles = <<>>
    /\ copyLast = [op |-> "none", builder |-> 0, arg |-> <<>>, before |-> <<>>, n |-> 0]
    /\ IdleExcept("copy")

\* the call recorded: its name, the builder it was made on, its argument and
\* the heap before it
CopyCalled(op, b, arg) ==
    [op |-> op, builder |-> b, arg |-> arg, before |-> heap, n |-> copyLast.n + 1]

\* JavaFile.Builder.add_static_import on the b-th builder
BuilderAddStaticImport(b, constant_class, constant_name) ==
    /\ copyLast.n < MaxCopyCalls
    /\ heap' = JavaFile_Builder_add_static_import(heap, jfBuilders[b], constant_class,
                                                  constant_name)
    /\ copyLast' = CopyCalled("add_static_import", b, <<constant_class, constant_name>>)
    /\ UNCHANGED <<jfBuilders, jfFiles>>
    /\ Frame("copy")

\* JavaFile.Builder.add_additional_import on the b-th builder
BuilderAddAdditionalImport(b, import_name) ==
    /\ copyLast.n < MaxCopyCalls
    /\ heap' = JavaFile_Builder_add_additional_import(heap, jfBuilders[b], import_name)
    /\ copyLast' = CopyCalled("add_additional_import", b, import_name)
    /\ UNCHANGED <<jfBuilders, jfFiles>>
    /\ Frame("copy")

\* JavaFile.Builder.build on the b-th builder
BuilderBuild(b) ==
    /\ copyLast.n < MaxCopyCalls /\ Len(jfFiles) < MaxCopyObjects
    /\ jfFiles' = Append(jfFiles, [by |-> b] @@ JavaFile_Builder_build(jfBuilders[b]))
    /\ copyLast' = CopyCalled("build", b, <<>>)
    /\ UNCHANGED <<heap, jfBuilders>>
    /\ Frame("copy")

\* JavaFile.to_builder on the f-th descriptor
FileToBuilder(f) ==
    /\ copyLast.n < MaxCopyCalls /\ Len(jfBuilders) < MaxCopyObjects
    /\ heap' = JavaFile_to_builder(heap, jfFiles[f]).heap
    /\ jfBuilders' = Append(jfBuilders,
                            [of |-> f] @@ JavaFile_to_builder(heap, jfFiles[f]).builder)
    /\ copyLast' = CopyCalled("to_builder", Len(jfBuilders) + 1, <<>>)
    /\ UNCHANGED jfFiles
    /\ Frame("copy")

NextCopy ==
    \/ \E b \in 1..Len(jfBuilders), i \in 1..Len(StaticImportChoices) :
           BuilderAddStaticImport(b, StaticImportChoices[i][1], StaticImportChoices[i][2])
    \/ \E b \in 1..Len(jfBuilders), i \in 1..Len(CopyImportChoices) :
           BuilderAddAdditionalImport(b, CopyImportChoices[i])
    \/ \E b \in 1..Len(jfBuilders) : BuilderBuild(b)
    \/ \E f \in 1..Len(jfFiles) : FileToBuilder(f)

SpecCopy == InitCopy /\ [][NextCopy]_vars

\* ---- a descriptor, the builder that to_builder() returns for it and the
\* ---- descriptor that build() or copy() returns

InitTrip ==
    /\ rtDescriptor \in Descriptors
    /\ rtBuilder = None /\ rtCopy = None
    /\ IdleExcept("trip")

\* rtDescriptor.to_builder()
ToBuilder ==
    /\ rtBuilder = None /\ rtCopy = None
    /\ rtBuilder' = Some(to_builder(rtDescriptor))
    /\ UNCHANGED <<rtDescriptor, rtCopy>>
    /\ Frame("trip")

\* build() on the builder that to_builder() returned
Build ==
    /\ rtBuilder # None /\ rtCopy = None
    /\ rtCopy' = Some([via |-> "to_builder"] @@ build(rtBuilder[1]))
    /\ UNCHANGED <<rtDescriptor, rtBuilder>>
    /\ Frame("trip")

\* rtDescriptor.copy()
Copy ==
    /\ rtBuilder = None /\ rtCopy = None
    /\ rtCopy' = Some([via |-> "copy"] @@ copy(rtDescriptor))
    /\ UNCHANGED <<rtDescriptor, rtBuilder>>
    /\ Frame("trip")

NextTrip == ToBuilder \/ Build \/ Copy

SpecTrip == InitTrip /\ [][NextTrip]_vars

\* ---- a ClassName made from a string by one of the factories, then a field
\* ---- of that type built and rendered

InitName ==
    /\ nameInput \in FqcnChoices
    /\ nameMade = None /\ nameOut = NotRendered
    /\ IdleExcept("name")

\* ClassName.get_from_fqcn(nameInput)
GetFromFqcn ==
    /\ nameMade = None
    /\ nameMade' = Some([factory |-> "get_from_fqcn",
                         value |-> ClassName_get_from_fqcn(nameInput)])
    /\ UNCHANGED <<nameInput, nameOut>>
    /\ Frame("name")

\* TypeName.get(nameInput)
TypeNameGet ==
    /\ nameMade = None
    /\ nameMade' = Some([factory |-> "TypeName.get", value |-> TypeName_get(nameInput)])
    /\ UNCHANGED <<nameInput, nameOut>>
    /\ Frame("name")

\* ClassName.get(nameInput, *simple_names)
ClassNameGet(simple_names) ==
    /\ nameMade = None
    /\ nameMade' = Some([factory |-> "ClassName.get",
                         value |-> ClassName_get(nameInput, simple_names)])
    /\ UNCHANGED <<nameInput, nameOut>>
    /\ Frame("name")

\* str(FieldSpec.builder(type_name, "f").build()): emit_type reads the
\* simple_name of the type
BuildAndRenderField ==
    /\ nameMade # None /\ nameOut.status = "none"
    /\ nameOut' = IF simple_name_raises(nameMade[1].value)
                  THEN Raised(FieldSpec(nameMade[1].value, <<"f">>, {}))
                  ELSE Rendered(FieldSpec_str(FieldSpec(nameMade[1].value, <<"f">>, {})),
                                FieldSpec(nameMade[1].value, <<"f">>, {}))
    /\ UNCHANGED <<nameInput, nameMade>>
    /\ Frame("name")

NextName ==
    \/ GetFromFqcn
    \/ TypeNameGet
    \/ \E simple_names \in {<<>>, <<nameInput>>, <<nameInput, nameInput>>} :
           ClassNameGet(simple_names)
    \/ BuildAndRenderField

SpecName == InitName /\ [][NextName]_vars

\* ---- type references constructed one after the other: ClassName.get,
\* ---- ArrayTypeName.of and TypeVariableName.get

InitEq == refs = <<>> /\ IdleExcept("eq")

\* ClassName.get(package_name, simple_name)
NewClassName(cn) ==
    /\ Len(refs) < MaxRefs
    /\ refs' = Append(refs, ClassNameRef(cn))
    /\ Frame("eq")

\* ArrayTypeName.of(ClassName.get(package_name, simple_name))
NewArrayTypeName(cn) ==
    /\ Len(refs) < MaxRefs
    /\ refs' = Append(refs, ArrayTypeName(cn))
    /\ Frame("eq")

\* TypeVariableName.get(name)
NewTypeVariableName(name) ==
    /\ Len(refs) < MaxRefs
    /\ refs' = Append(refs, TypeVariableName(name))
    /\ Frame("eq")

NextEq ==
    \/ \E i \in 1..Len(RefClassNames) : NewClassName(RefClassNames[i])
    \/ \E i \in 1..Len(RefClassNames) : NewArrayTypeName(RefClassNames[i])
    \/ \E i \in 1..Len(RefVariableNames) : NewTypeVariableName(RefVariableNames[i])

SpecEq == InitEq /\ [][NextEq]_vars

\* ---- a descriptor emitted to a writer whose indent level the caller raised

InitEmit ==
    /\ emSubject \in {[class |-> "method", value |-> m] : m \in SinkMethods}
                     \cup {[class |-> "type", value |-> t] : t \in SinkTypes}
    /\ emWriter = CodeWriter(DefaultIndent) /\ emStart = None
    /\ IdleExcept("emit")

\* CodeWriter.indent_more, called before the descriptor is emitted
SinkIndentMore ==
    /\ emStart = None /\ emWriter.indent_level < MaxDepth
    /\ emWriter' = indent_more(emWriter)
    /\ UNCHANGED <<emSubject, emStart>>
    /\ Frame("emit")

\* MethodSpec.emit(code_writer)
EmitMethodToSink ==
    /\ emStart = None /\ emSubject.class = "method"
    /\ emStart' = Some([level |-> emWriter.indent_level,
                        raised |-> Raises(MethodSpec_emit(emSubject.value))])
    /\ emWriter' = Run(emWriter, MethodSpec_emit(emSubject.value))
    /\ UNCHANGED emSubject
    /\ Frame("emit")

\* TypeSpec.emit(code_writer), as far as it gets
EmitTypeToSink ==
    /\ emStart = None /\ emSubject.class = "type"
    /\ emStart' = Some([level |-> emWriter.indent_level,
                        raised |-> Raises(TypeSpec_emit(emSubject.value))])
    /\ emWriter' = Run(emWriter, TypeSpec_emit(emSubject.value))
    /\ UNCHANGED emSubject
    /\ Frame("emit")

NextEmit ==
    \/ SinkIndentMore
    \/ EmitMethodToSink
    \/ EmitTypeToSink

SpecEmit == InitEmit /\ [][NextEmit]_vars

-----------------------------------------------------------------------------
(* The properties                                                          *)

\* the order of the modifiers that the specification fixes
CanonicalOrder ==
    <<<<"p","u","b","l","i","c">>, <<"p","r","o","t","e","c","t","e","d">>, <<"p","r","i","v","a","t","e">>, <<"a","b","s","t","r","a","c","t">>, <<"s","t","a","t","i","c">>, <<"f","i","n","a","l">>, <<"t","r","a","n","s","i","e","n","t">>,
      <<"v","o","l","a","t","i","l","e">>, <<"s","y","n","c","h","r","o","n","i","z","e","d">>, <<"n","a","t","i","v","e">>, <<"s","t","r","i","c","t","f","p">>, <<"s","e","a","l","e","d">>, <<"n","o","n","-","s","e","a","l","e","d">>, <<"d","e","f","a","u","l","t">>>>

\* the modifiers among the words of the first line of a declaration
ModifierWords(text) ==
    SelectSeq(Split(Split(text, "\n")[1], " "), LAMBDA word : word \in Modifier)

\* C1: whatever modifiers were added to a type, method, field or parameter
\* builder, in whatever calls, the rendered declaration lists them in the
\* canonical order
C1_CanonicalModifierOrder ==
    (modRendered.status = "ok" /\ ~ModifierCheckRaises(modKind, modRendered.of))
        => ModifierWords(modRendered.text)
               = SelectSeq(CanonicalOrder, LAMBDA m : m \in modRendered.of)

\* the non-static import lines of a rendered file, in the order of the text
ImportLines(text) ==
    SelectSeq(Split(text, "\n"),
              LAMBDA l : StartsWith(l, <<"i","m","p","o","r","t"," ">>) /\ ~StartsWith(l, <<"i","m","p","o","r","t"," ","s","t","a","t","i","c"," ">>))

\* the import line of a qualified name
ImportLine(name) == <<"i","m","p","o","r","t"," ">> \o name \o <<";">>

\* how often a line occurs among the lines
Occurrences(lines, line) == Cardinality({i \in 1..Len(lines) : lines[i] = line})

\* the text by which the type of the i-th field is rendered: its declaration
\* line without the indentation and the field's name
RenderedType(out, i) ==
    LET suffix == <<" ">> \o out.of.type_spec.fields[i].name \o <<";">>
        lines == Split(out.text, "\n")
        k == CHOOSE j \in 1..Len(lines) : EndsWith(lines[j], suffix)
    IN SubSeq(lines[k], Len(out.of.indent) + 1, Len(lines[k]) - Len(suffix))

\* the fields of the rendered file whose type is a ClassName with a package
QualifiedFields(out) ==
    {i \in 1..Len(out.of.type_spec.fields) : out.of.type_spec.fields[i].type_name.package_name # <<>>}

FieldType(out, i) == out.of.type_spec.fields[i].type_name

\* build() and str() of the file gave a text
FileRendered == jfOut.status = "ok"

\* the writer after FieldSpec.emit of each field of the file's type
FieldsWriter(jf) == Run(CodeWriter(jf.indent), EmitFields(jf.type_spec.fields))

\* what get_imports of that writer records: pairs of package and name
RecordedImports(jf) == ImportPairs(get_imports(FieldsWriter(jf)))

\* the text by which FieldSpec.emit writes the type of the i-th field: what
\* it writes for the field, without the field's name
WrittenType(jf, i) ==
    LET text == FieldSpec_str(jf.type_spec.fields[i])
        suffix == <<" ">> \o jf.type_spec.fields[i].name \o <<";", "\n">>
    IN SubSeq(text, 1, Len(text) - Len(suffix))

\* a field whose ClassName has a package, not wildcard-imported, is written
\* fully qualified, or by its simple name with its qualified name recorded
\* for import
WrittenTypesAreImported(jf) ==
    \A i \in 1..Len(jf.type_spec.fields) :
        LET type_name == jf.type_spec.fields[i].type_name
        IN (type_name.package_name # <<>>
            /\ type_name.package_name \notin extract_wildcard_imports(jf))
               => \/ WrittenType(jf, i) = qualified_name(type_name)
                  \/ /\ WrittenType(jf, i) = simple_name(type_name)
                     /\ \E pair \in RecordedImports(jf) :
                            pair[1] \o <<".">> \o pair[2] = qualified_name(type_name)

\* C2: a ClassName with a package that the declaration renders, its package
\* not wildcard-imported, is written fully qualified or by its simple name
\* with its qualified name recorded for import, and building and rendering
\* the file gives a text that has it fully qualified, or by its simple name
\* with an import line of its qualified name
C2_RenderedTypesAreImported ==
    jfOut.status # "none"
        => /\ WrittenTypesAreImported(jfOut.of)
           /\ FileRendered
           /\ \A i \in QualifiedFields(jfOut) :
               FieldType(jfOut, i).package_name \notin extract_wildcard_imports(jfOut.of)
                   => \/ RenderedType(jfOut, i) = qualified_name(FieldType(jfOut, i))
                      \/ /\ RenderedType(jfOut, i) = simple_name(FieldType(jfOut, i))
                         /\ Occurrences(ImportLines(jfOut.text),
                                        ImportLine(qualified_name(FieldType(jfOut, i)))) >= 1

\* of two fields whose types share the simple name and differ in the
\* package, one type is recorded for import and one is written fully
\* qualified
ConflictIsResolved(jf) ==
    \A i, j \in 1..Len(jf.type_spec.fields) :
        LET a == jf.type_spec.fields[i].type_name
            b == jf.type_spec.fields[j].type_name
        IN (/\ a.package_name # <<>> /\ b.package_name # <<>>
            /\ simple_name(a) = simple_name(b) /\ a.package_name # b.package_name)
               => /\ Cardinality({pair \in RecordedImports(jf) : pair[2] = simple_name(a)}) = 1
                  /\ \/ WrittenType(jf, i) = qualified_name(a)
                     \/ WrittenType(jf, j) = qualified_name(b)

\* C3: of two fields whose types share the simple name and differ in the
\* package one type is recorded for import and the other written fully
\* qualified, and building and rendering the file gives a text with one
\* specific import line for that simple name and one of the two types
\* rendered fully qualified
C3_ConflictingSimpleNames ==
    (jfOut.status # "none" /\ jfOut.of.additional_imports = {})
        => /\ ConflictIsResolved(jfOut.of)
           /\ FileRendered
           /\ \A i, j \in QualifiedFields(jfOut) :
               (/\ simple_name(FieldType(jfOut, i)) = simple_name(FieldType(jfOut, j))
                /\ FieldType(jfOut, i).package_name # FieldType(jfOut, j).package_name)
                   => /\ Cardinality({k \in 1..Len(ImportLines(jfOut.text)) :
                              EndsWith(ImportLines(jfOut.text)[k],
                                       <<".">> \o simple_name(FieldType(jfOut, i)) \o <<";">>)}) = 1
                      /\ \/ RenderedType(jfOut, i) = qualified_name(FieldType(jfOut, i))
                         \/ RenderedType(jfOut, j) = qualified_name(FieldType(jfOut, j))

\* C4: building and rendering a file with a wildcard import of a package
\* gives a text with the wildcard line once and no other import line of that
\* package
C4_WildcardSuppressesSpecificImports ==
    (jfOut.status # "none" /\ extract_wildcard_imports(jfOut.of) # {})
        => /\ FileRendered
           /\ \A p \in extract_wildcard_imports(jfOut.of) :
               /\ Occurrences(ImportLines(jfOut.text), ImportLine(p \o <<".", "*">>)) = 1
               /\ \A k \in 1..Len(ImportLines(jfOut.text)) :
                      StartsWith(ImportLines(jfOut.text)[k], <<"i","m","p","o","r","t"," ">> \o p \o <<".">>)
                          => ImportLines(jfOut.text)[k] = ImportLine(p \o <<".", "*">>)

\* C5: building and rendering a file gives a text whose import lines are in
\* strictly ascending order
C5_ImportLinesAscending ==
    jfOut.status # "none"
        => /\ FileRendered
           /\ \A k \in 1..(Len(ImportLines(jfOut.text)) - 1) :
               StrLess(ImportLines(jfOut.text)[k], ImportLines(jfOut.text)[k + 1])

\* C6: a type of java.lang that the declaration references is not recorded
\* for import by the writer, and building and rendering the file gives a
\* text that has the type by its simple name and no import line of java.lang
C6_JavaLangNotImported ==
    (jfOut.status # "none"
     /\ \E i \in QualifiedFields(jfOut) : FieldType(jfOut, i).package_name = <<"j","a","v","a",".","l","a","n","g">>)
        => /\ \A pair \in RecordedImports(jfOut.of) : pair[1] # <<"j","a","v","a",".","l","a","n","g">>
           /\ FileRendered
           /\ \A i \in QualifiedFields(jfOut) :
               FieldType(jfOut, i).package_name = <<"j","a","v","a",".","l","a","n","g">>
                   => /\ RenderedType(jfOut, i) = simple_name(FieldType(jfOut, i))
                      /\ \A k \in 1..Len(ImportLines(jfOut.text)) :
                             ~StartsWith(ImportLines(jfOut.text)[k], <<"i","m","p","o","r","t"," ">> \o <<"j","a","v","a",".","l","a","n","g">> \o <<".">>)

\* the number of positional placeholders of a format string
Placeholders(format_string) ==
    Cardinality({i \in 1..Len(format_string) : MatchAt(format_string, i)})

\* C7: a block is built and rendered only when every add call supplied
\* exactly one argument for each placeholder of its format string; otherwise
\* the add or the build raised
C7_PlaceholdersMatchArguments ==
    (/\ cbOut.status = "ok"
     /\ \A i \in 1..Len(cbOut.of.calls) : cbOut.of.calls[i].format # IndexedTemplate)
        => \A i \in 1..Len(cbOut.of.calls) :
               Placeholders(cbOut.of.calls[i].format) = Len(cbOut.of.calls[i].args)

\* C8: the template $1T.out.println($1S) built with one class reference
\* renders the type form of the argument, then the quoted form of the same
\* argument
C8_IndexedPlaceholderReusesArgument ==
    (/\ cbOut.status = "ok"
     /\ cbOut.of.calls = <<[format |-> IndexedTemplate, args |-> <<TypeArg(JavaLangSystem)>>]>>)
        => cbOut.text
               = CodeBlock_str(CodeBlock_of(<<"$","T">>, <<TypeArg(JavaLangSystem)>>))
                 \o <<".","o","u","t",".","p","r","i","n","t","l","n","(">>
                 \o CodeBlock_str(CodeBlock_of(<<"$","S">>, <<TypeArg(JavaLangSystem)>>))
                 \o <<")">>

\* the value with every backslash doubled and every double quote preceded by
\* one backslash
RECURSIVE BackslashEscaped(_)
BackslashEscaped(value) ==
    IF value = <<>> THEN <<>>
    ELSE (CASE Head(value) = "\\" -> <<"\\", "\\">>
            [] Head(value) = "\"" -> <<"\\", "\"">>
            [] OTHER -> <<Head(value)>>)
         \o BackslashEscaped(Tail(value))

\* C9: a value bound to the quoted-string placeholder renders as a double
\* quote, the value with its backslashes doubled and its double quotes
\* preceded by one backslash, and a double quote
C9_QuotedStringEscaping ==
    (cbOut.status = "ok" /\ Len(cbOut.of.calls) = 1)
        => cbOut.text
               = <<"\"">> \o BackslashEscaped(cbOut.of.calls[1].args[1].value) \o <<"\"">>

\* a value with a double quote after a backslash was rendered
C9_Witness ==
    /\ cbOut.status = "ok"
    /\ Len(cbOut.of.calls) = 1
    /\ cbOut.of.calls[1].args[1].value = <<"a", "\\", "\"">>
    /\ cbOut.text = <<"\"", "a", "\\", "\\", "\\", "\"", "\"">>

\* the renderings of the blocks from the i-th on, the separator between them
RECURSIVE Interleaved(_, _, _)
Interleaved(blocks, i, separator) ==
    IF i > Len(blocks) THEN <<>>
    ELSE CodeBlock_str(blocks[i])
         \o (IF i < Len(blocks) THEN separator ELSE <<>>)
         \o Interleaved(blocks, i + 1, separator)

\* C10: joining blocks with a separator, and a prefix and a suffix when
\* given, renders as the prefix, the blocks' renderings with the separator
\* between neighbours, and the suffix
C10_JoinInterleavesSeparator ==
    (joinOut.status # "none" /\ Len(joinBlocks) >= 1)
        => /\ joinOut.status = "ok"
           /\ joinOut.text
                  = joinOut.of.prefix \o Interleaved(joinBlocks, 1, joinSep) \o joinOut.of.suffix

\* the lines of text, split at its newlines, and the last of them that is
\* not empty (0 when every line is empty)
TextLines(text) == Split(text, "\n")
LastContent(text) ==
    LET lines == TextLines(text)
        content == {i \in 1..Len(lines) : lines[i] # <<>>}
    IN IF content = {} THEN 0 ELSE CHOOSE i \in content : \A j \in content : j <= i

\* what emit(text) appends according to the specification: the prefix goes
\* before the first line when the writer is at a line start and the line is
\* not empty, and after every newline that text goes on after; the newlines
\* that end the text are trailing ones
SpecifiedAppend(before, text) ==
    LET lines == TextLines(text)
        prefix == Repeat(before.indent, before.indent_level)
        Prefixed(i) == IF i = 1 THEN before.line_start /\ lines[1] # <<>>
                       ELSE i <= LastContent(text)
    IN Concat([i \in 1..Len(lines) |->
                  (IF i > 1 THEN <<"\n">> ELSE <<>>)
                  \o (IF Prefixed(i) THEN prefix ELSE <<>>) \o lines[i]])

NoBlankLineInside(text) == \A i \in 2..LastContent(text) : TextLines(text)[i] # <<>>

\* text begins with two newlines: its second line is empty
BeginsWithBlankLine(text) == StartsWith(text, <<"\n", "\n">>)

C12_IndentDepthNeverNegative ==
    /\ writer.indent_level >= 0
    /\ (writerLast.op = "indent_less" /\ writerLast.before.indent_level = 0)
           => writer = writerLast.before

\* indent_less and end_control_flow were called at depth zero
C12_Witness ==
    /\ writerLast.op \in {"indent_less", "end_control_flow"}
    /\ writerLast.before.indent_level = 0
    /\ writer.indent_level = 0

\* the number of control flow blocks open before call i: the begin calls
\* less the end calls among the calls before it
OpenBlocks(calls, i) ==
    Cardinality({j \in 1..(i - 1) : calls[j].op = "begin_control_flow"})
    - Cardinality({j \in 1..(i - 1) : calls[j].op = "end_control_flow"})

\* every continuation and every closing call has an open block, and every
\* block is closed
WellNested(calls) ==
    /\ \A i \in 1..Len(calls) :
           calls[i].op \in {"next_control_flow", "end_control_flow"} => OpenBlocks(calls, i) > 0
    /\ OpenBlocks(calls, Len(calls) + 1) = 0

\* the level at which the line of call i is to render: a header and a
\* statement at the number of open blocks, a continuation and a closing brace
\* one level less
LineLevel(calls, i) ==
    IF calls[i].op \in {"next_control_flow", "end_control_flow"}
    THEN OpenBlocks(calls, i) - 1
    ELSE OpenBlocks(calls, i)

\* the number of spaces a line starts with
LeadingSpaces(line) ==
    Cardinality({k \in 1..Len(line) : \A j \in 1..k : line[j] = " "})

\* C13: in a CodeBlock built with begin_control_flow, next_control_flow and
\* end_control_flow, every statement between an opening and its closing call
\* renders one indent level deeper than the header, and each continuation
\* and the closing brace render at the header's level
C13_ControlFlowIndentsBody ==
    (cbOut.status = "ok" /\ cbOut.of.calls # <<>> /\ WellNested(cbOut.of.calls)) =>
        LET lines == Split(cbOut.text, "\n")
        IN /\ Len(lines) = Len(cbOut.of.calls) + 1
           /\ \A i \in 1..Len(cbOut.of.calls) :
                  LeadingSpaces(lines[i]) = Len(DefaultIndent) * LineLevel(cbOut.of.calls, i)

\* the combinations of modifiers that the specification forbids on each
\* kind of builder
ForbiddenCombinations(kind) ==
    CASE kind = "method" -> {{ABSTRACT, FINAL}, {ABSTRACT, PRIVATE}, {ABSTRACT, STATIC}}
      [] kind = "field" -> {{FINAL, VOLATILE}}
      [] kind = "type" -> {{ABSTRACT, FINAL}, {SEALED, FINAL}}
      [] OTHER -> {}
HasForbidden(kind, ms) == \E pair \in ForbiddenCombinations(kind) : pair \subseteq ms

\* C14: the add_modifiers call that first makes the accumulated set hold a
\* forbidden combination raises, in whatever order and in however many calls
\* the two modifiers came, and a call raises only when the accumulated set
\* holds a forbidden combination
C14_ForbiddenCombinationRaises ==
    [][modCalls' = modCalls + 1 =>
          /\ (~HasForbidden(modKind, modifiers) /\ HasForbidden(modKind, modifiers')) => modRaised'
          /\ modRaised' => HasForbidden(modKind, modifiers')]_vars

\* the second call on a method builder completed abstract+static and raised
C14_Witness ==
    /\ modKind = "method" /\ modCalls = 2 /\ modRaised
    /\ modifiers = {ABSTRACT, STATIC}

\* the text in lower case
Lower(text) ==
    [i \in 1..Len(text) |->
        IF Ord(text[i]) >= Ord("A") /\ Ord(text[i]) <= Ord("Z")
        THEN Chars[Ord(text[i]) + Ord("a") - Ord("A")]
        ELSE text[i]]

\* the message mentions the word, in whatever case
Mentions(message, word) ==
    \E i \in 1..(Len(message) - Len(word) + 1) :
        SubSeq(Lower(message), i, i + Len(word) - 1) = word

\* a code fragment was added to the builder: add_code, add_statement or a
\* control flow call returned
CodeFragmentAdded ==
    \E i \in 1..Len(methodCalls) :
        /\ methodCalls[i].op \in {"add_code", "add_statement", "begin_control_flow",
                                  "next_control_flow", "end_control_flow"}
        /\ ~methodCalls[i].raised

\* C15: no MethodSpec that build() returns is abstract and has a body: when
\* the builder carries ABSTRACT and a code fragment was added, in either
\* order, build() raises an error that mentions 'abstract' and 'body'
C15_AbstractMethodHasNoBody ==
    /\ (methodOut.status # "none" /\ ABSTRACT \in methodBuilder.modifiers /\ CodeFragmentAdded)
           => /\ methodOut.status = "raised"
              /\ Mentions(methodOut.of.message, <<"a","b","s","t","r","a","c","t">>)
              /\ Mentions(methodOut.of.message, <<"b","o","d","y">>)
    /\ methodOut.status = "ok"
           => ~(/\ ABSTRACT \in methodOut.of.modifiers
                /\ methodOut.of.code # None
                /\ methodOut.of.code[1].format_parts # <<>>)

\* C16: build() on a record builder to which no record component was added
\* raises instead of returning a record with an empty component list.
C16_RecordWithoutComponentsRaises ==
    (typeOut.status # "none" /\ typeBuilder.kind = "RECORD"
        /\ typeBuilder.record_components = <<>>)
    => typeOut.status = "raised"

\* a type builder call of the wrong kind, as the kind restrictions list them
WrongKind(op, kind) ==
    \/ op = "superclass" /\ kind \in {"INTERFACE", "ANNOTATION"}
    \/ op \in {"add_enum_constant", "add_enum_constant_with_class_body"} /\ kind # "ENUM"
    \/ op = "add_record_component" /\ kind # "RECORD"

\* C17: a kind-restricted call on a type builder of the wrong kind raises and
\* leaves the builder as it was, so that the descriptor built next is the
\* one that would have been built without the call.
C17_WrongKindCallRaisesAndKeepsBuilder ==
    (typeOut.status = "none" /\ WrongKind(typeLast.op, typeBuilder.kind))
    => /\ typeLast.raised
       /\ typeBuilder = typeLast.before
       /\ TypeSpec_build(typeBuilder).spec = TypeSpec_build(typeLast.before).spec

\* an enum constant call raised on a class builder that already held a
\* superclass
C17_Witness ==
    /\ typeLast.op = "add_enum_constant" /\ typeBuilder.kind = "CLASS"
    /\ typeLast.raised /\ typeBuilder.superclass_field # None
    /\ typeBuilder.enum_constants = <<>>

\* the contents of a descriptor's containers on a heap
FileFields(h, jf) ==
    [static_imports |-> h[jf.static_imports], additional_imports |-> h[jf.additional_imports]]

\* str() of a descriptor with no static import, on a heap: a file of a class
\* with one field; TypeError when str() raises
FileText(h, jf) ==
    LET file == JavaFile(<<"c","o","m",".","e","x","a","m","p","l","e">>,
                         TypeSpec(<<"T","e","s","t">>, {}, <<FieldSpec(JavaUtilList, <<"i","t","e","m","s">>, {})>>, <<>>),
                         DefaultIndent, h[jf.additional_imports])
    IN  JavaFile_str(file)

\* the descriptor has the same fields and the same rendering on both heaps
SameFile(h1, h2, jf) ==
    /\ FileFields(h1, jf) = FileFields(h2, jf)
    /\ (h1[jf.static_imports] = {} /\ h2[jf.static_imports] = {})
           => FileText(h1, jf) = FileText(h2, jf)

\* the line of an additional import is one of the lines of the text
HasImportLine(text, import_name) ==
    \E i \in 1..Len(Split(text, "\n")) :
        Split(text, "\n")[i] = <<"i","m","p","o","r","t"," ">> \o import_name \o <<";">>

\* the last call was an add_static_import or add_additional_import
LastCallAddedImport == copyLast.op \in {"add_static_import", "add_additional_import"}

\* C18: an import added to a builder obtained from to_builder() does not change
\* the original descriptor, whose fields and rendering stay as they were, and
\* the descriptor built from the builder has the import.
C18_ToBuilderLeavesOriginalUnchanged ==
    (LastCallAddedImport /\ jfBuilders[copyLast.builder].of # 0)
    => LET b == jfBuilders[copyLast.builder]
           original == jfFiles[b.of]
           built == JavaFile_Builder_build(b)
       IN  /\ SameFile(heap, copyLast.before, original)
           /\ copyLast.op = "add_static_import" => copyLast.arg \in heap[built.static_imports]
           /\ (copyLast.op = "add_additional_import" /\ heap[built.static_imports] = {})
                  => /\ FileText(heap, built) # TypeError
                     /\ HasImportLine(FileText(heap, built), copyLast.arg)

\* C19: a call on a builder after build() leaves the fields and the rendering
\* of the descriptors already built from it unchanged.
C19_BuiltDescriptorSharesNothing ==
    LastCallAddedImport
    => \A f \in 1..Len(jfFiles) :
           jfFiles[f].by = copyLast.builder => SameFile(heap, copyLast.before, jfFiles[f])

\* str() of a descriptor of SpecTrip
Descriptor_str(d) ==
    CASE d.class = "FieldSpec" -> FieldSpec_str(d.value)
      [] d.class = "CodeImpl" -> CodeImpl_str(d.value)
      [] OTHER -> FileText(d.heap, d.value)

\* C20: for every descriptor with a to_builder method, to_builder().build()
\* is a descriptor that renders to the same string as the original.
C20_ToBuilderBuildRendersEqual ==
    (rtCopy # None /\ rtCopy[1].via = "to_builder")
    => Descriptor_str(rtCopy[1]) = Descriptor_str(rtDescriptor)

\* C21: building and rendering a JavaFile gives a text, rendering the file
\* again gives the same text, and the file rendered is still the file that
\* was built.
C21_RenderingIsDeterministic ==
    jfOut.status # "none"
    => /\ FileRendered
       /\ jfOut.of = BuiltFile
       /\ JavaFile_str(BuiltFile) = jfOut.text

\* C24: every ClassName that ClassName.get, ClassName.get_from_fqcn or
\* TypeName.get returns has at least one simple name.
C24_SimpleNamesNonEmpty ==
    nameMade # None => nameMade[1].value.simple_names # <<>>

\* the index of the first segment that begins with an uppercase letter of
\* ASCII, or one more than the number of segments when there is none
FirstAsciiUpper(segments) ==
    LET starts == {i \in 1..Len(segments) :
                      segments[i] # <<>> /\ is_ascii_upper(segments[i][1])}
    IN  IF starts = {} THEN Len(segments) + 1
        ELSE CHOOSE i \in starts : \A j \in starts : i <= j

\* C25: get_from_fqcn on a dotted name puts the segments before the first one
\* that begins with an uppercase letter of ASCII into the package and that
\* segment and those after it into the class path, in their order.
C25_SplitAtFirstAsciiUpper ==
    (nameMade # None /\ nameMade[1].factory = "get_from_fqcn" /\ Contains(nameInput, "."))
    => LET segments == Split(nameInput, ".")
           k == FirstAsciiUpper(segments)
       IN  /\ nameMade[1].value.package_name = Join(SubSeq(segments, 1, k - 1), <<".">>)
           /\ nameMade[1].value.simple_names = SubSeq(segments, k, Len(segments))

\* C22: rendering a descriptor that was built without an error raises none.
C22_EmissionIsTotal == nameOut.status # "raised"

\* C23: two type references constructed separately are equal and have equal
\* hashes exactly when their rendered strings are equal.
C23_EqualIffSameRendering ==
    \A i, j \in 1..Len(refs) :
        i # j => ((TypeName_eq(refs, i, j) /\ TypeName_hash(refs, i) = TypeName_hash(refs, j))
                  <=> TypeName_str(refs[i]) = TypeName_str(refs[j]))


\* text p occurs in text s
Occurs(s, p) == \E i \in 1..(Len(s) - Len(p) + 1) : SubSeq(s, i, i + Len(p) - 1) = p

\* the lines of a rendered method between its opening brace and its closing
\* one, which stands after the indentation `prefix` or at the end of the
\* last line of the body
BodyLines(text, prefix) ==
    LET lines == Split(text, "\n")
        n == Len(lines)
        stem == SubSeq(lines[n - 1], 1, Len(lines[n - 1]) - 1)
    IN  SubSeq(lines, 2, n - 2) \o (IF stem = prefix THEN <<>> ELSE <<stem>>)

\* C26: a method emitted at some depth ends in one of three forms, chosen in
\* this order: a bare semicolon when it is abstract, or native without a
\* default value; else a ' default <value>;' clause when it has a default
\* value; else a body in braces whose lines are indented one level more than
\* the method's first line. An abstract method renders neither a brace nor a
\* default clause.
C26_MethodEndsInOneOfThreeForms ==
    (emStart # None /\ emSubject.class = "method")
    => LET m == emSubject.value
           text == WriterText(emWriter)
           prefix == Repeat(DefaultIndent, emStart[1].level)
       IN  /\ StartsWith(text, prefix)
           /\ IF ABSTRACT \in m.modifiers \/ (NATIVE \in m.modifiers /\ m.default_value = None)
              THEN /\ EndsWith(text, <<")",";","\n">>)
                   /\ ~Contains(text, "{") /\ ~Contains(text, "}")
                   /\ ~Occurs(text, <<" ","d","e","f","a","u","l","t"," ">>)
                   /\ Len(Split(text, "\n")) = 2
              ELSE IF m.default_value # None
              THEN /\ EndsWith(text, <<")"," ","d","e","f","a","u","l","t"," ">>
                                     \o CodeBlock_str(m.default_value[1]) \o <<";","\n">>)
                   /\ ~Contains(text, "{") /\ ~Contains(text, "}")
              ELSE /\ EndsWith(Split(text, "\n")[1], <<")"," ","{">>)
                   /\ EndsWith(text, <<"}","\n">>)
                   /\ ~Occurs(text, <<" ","d","e","f","a","u","l","t"," ">>)
                   /\ \A i \in 1..Len(BodyLines(text, prefix)) :
                          BodyLines(text, prefix)[i] # <<>>
                          => StartsWith(BodyLines(text, prefix)[i], prefix \o DefaultIndent)

\* an abstract method that has a default value and a body was emitted at a
\* depth above 0
C26_Witness ==
    /\ emStart # None /\ emStart[1].level > 0 /\ emSubject.class = "method"
    /\ ABSTRACT \in emSubject.value.modifiers /\ emSubject.value.default_value # None
    /\ emSubject.value.code # None /\ emSubject.value.code[1].format_parts # <<>>


\* C27: an add_modifiers call that raised leaves the builder's modifier set
\* as it was before the call, and no descriptor that build() returns has a
\* forbidden combination in its modifier set.
C27_FailedAddModifiersKeepsSet ==
    /\ [][(modCalls' = modCalls + 1 /\ modRaised') => modifiers' = modifiers]_vars
    /\ [](modRendered.status = "ok" => ~HasForbidden(modKind, modRendered.of))


\* a line of the text holds indentation and nothing else
HasIndentOnlyLine(text, indent) ==
    \E i \in 1..Len(Split(text, "\n")) :
        \E k \in 1..Len(Split(text, "\n")[i]) : Split(text, "\n")[i] = Repeat(indent, k)

\* C28: from every state of a writer, emit(a) followed by emit(b) leaves the
\* output text and the line-start flag that emit(a + b) leaves, and no
\* emitted text puts indentation on a line that is otherwise empty.
C28_EmitIsSplitInvariant ==
    \A i, j \in 1..Len(EmitTexts) :
        LET a == EmitTexts[i]
            b == EmitTexts[j]
            split == emit(emit(writer, a), b)
            whole == emit(writer, a \o b)
        IN  /\ WriterText(split) = WriterText(whole)
            /\ split.line_start = whole.line_start
            /\ ~HasIndentOnlyLine(WriterText(writer), writer.indent)
                   => ~HasIndentOnlyLine(WriterText(whole), writer.indent)


\* the top-level class that encloses a class
TopLevelClass(cn) == [cn EXCEPT !.simple_names = <<cn.simple_names[1]>>]

\* C29: the import that the writer records for a referenced class, from
\* which the import line 'import {package}.{name};' is written, names the
\* qualified name of that class, the package followed by the full path of
\* simple names, or that of its top-level class.
C29_ImportNamesQualifiedName ==
    jfOut.status # "none"
    => \A pair \in RecordedImports(jfOut.of) :
           \E i \in QualifiedFields(jfOut) :
               pair[1] \o <<".">> \o pair[2]
                   \in {qualified_name(FieldType(jfOut, i)),
                        qualified_name(TopLevelClass(FieldType(jfOut, i)))}

\* C30: emitting a method or a type, with its nested types, the class bodies
\* of its enum constants and the bodies of its methods, returns and leaves
\* the writer at the indent level it had when emit was called.
C30_EmitIsBalanced ==
    emStart # None => /\ ~emStart[1].raised
                      /\ emWriter.indent_level = emStart[1].level

====
